---- MODULE Spec2Model ----
(***************************************************************************)
(* Model of the MQTT Sentinel load-generation engine:                      *)
(*   - UserIDAllocator            (demo/loadtest/locustfile_distributed.py) *)
(*   - connection sessions        (locustfile.py, locustfile_connection_    *)
(*                                 test.py, locustfile_distributed.py)      *)
(*   - background loop and bridge (locustfile_distributed.py)               *)
(*   - alert_stats report / merge (locustfile.py)                           *)
(* Each component has its own specification; the variables of the other    *)
(* components stay at their initial value under it.                        *)
(***************************************************************************)
EXTENDS Integers, Sequences, FiniteSets, TLC

VARIABLES worker_count, user_pool_size, instances, counter, alock, tpc, tid, returned

VARIABLES variant, user_kind, client_id, upc, cur, nsess, ticks, sess, acked, timed_out,
          disc_calls, events, connection_stats, alert_stats, msgs

allocVars == <<worker_count, user_pool_size, instances, counter, alock, tpc, tid, returned>>

sessVars == <<variant, user_kind, client_id, upc, cur, nsess, ticks, sess, acked, timed_out,
              disc_calls, events, connection_stats, alert_stats, msgs>>

VARIABLES connect_timeout, loop_state, loops_created, loop_lock, loop_cur,
          bpc, elapsed, waited, work, outcome, got, tspc, tsgot

VARIABLES sent, merged

VARIABLES mlock, mpc, mtmp, mpayload, stores, classified

VARIABLES stats_lock, lpc, ltmp, lev, delivered

VARIABLES user_counter, user_counter_lock, kpc, ktmp, users, starts

VARIABLES mqtt_broker, host, broker

VARIABLES conn_stats, stopped

bridgeVars == <<connect_timeout, loop_state, loops_created, loop_lock, loop_cur,
                bpc, elapsed, waited, work, outcome, got, tspc, tsgot>>

reportVars == <<sent, merged>>

msgVars == <<mlock, mpc, mtmp, mpayload, stores, classified>>

statVars == <<stats_lock, lpc, ltmp, lev, delivered>>

counterVars == <<user_counter, user_counter_lock, kpc, ktmp, users, starts>>

startVars == <<mqtt_broker, host, broker>>

mergeVars == <<conn_stats, stopped>>

procVars == <<statVars, counterVars, startVars, mergeVars>>

vars == <<allocVars, sessVars, bridgeVars, reportVars, msgVars, procVars>>

(***************************************************************************)
(* Bounds                                                                  *)
(***************************************************************************)
MaxWorkers == 2
MaxPool == 4
MaxCalls == 3
NumThreads == 2
MaxSessions == 2
MaxTicks == 1
MaxMsgs == 1
NumWorkers == 2
NumCallers == 2
MaxTimeout == 2
MaxExtra == 2
MaxAlerts == 1
MaxReports == 3
ScenarioCalls == 51
NumCallbackThreads == 2
MaxDeliveries == 3
NumListeners == 2
MaxEvents == 3
NumSpawners == 2
MaxUsers == 3
MaxStarts == 1

\* the end-to-end scenario's configuration: USER_POOL_SIZE=100, WORKER_COUNT=2
ScenarioPool == 100
ScenarioWorkers == 2

(***************************************************************************)
(* UserIDAllocator                                                         *)
(***************************************************************************)
NoThread == 0
Threads == 1..NumThreads
\* the worker processes whose allocators are observed
Workers == instances

BaseIdIgnoresIndex(w) == 1

\* self._base_id = worker_index + 1
base_id(w) == w + 1

NextUserIdUnitStride(base, k, count) == base + k

\* user_id = self._base_id + (self._counter * self.worker_count)
NextUserId(base, k, count) == base + (k * count)

LockIgnored(w) == TRUE

\* with self._lock: the lock is free
LockAvailable(w) == alock[w] = NoThread

AllocFrame == UNCHANGED <<worker_count, user_pool_size, instances, sessVars, bridgeVars, reportVars, msgVars, procVars>>

InCall(w) == {t \in Threads : tpc[w][t] # "idle"}

PoolReached(user_id) == user_id >= user_pool_size

\* if user_id > self.user_pool_size
PoolExceeded(user_id) == user_id > user_pool_size

\* the number of calls explored: MaxCalls, or ScenarioCalls under the
\* end-to-end scenario's configuration
CallLimit == IF user_pool_size = ScenarioPool THEN ScenarioCalls ELSE MaxCalls

\* get_next_user_id, line 97-98: take the lock and compute user_id from
\* the counter
AllocEnter(w, t) ==
    /\ tpc[w][t] = "idle"
    /\ Len(returned[w]) + Cardinality(InCall(w)) < CallLimit
    /\ LockAvailable(w)
    /\ alock' = [alock EXCEPT ![w] = t]
    /\ tid' = [tid EXCEPT ![w][t] = NextUserId(base_id(w), counter[w], worker_count)]
    /\ tpc' = [tpc EXCEPT ![w][t] = "computed"]
    /\ AllocFrame
    /\ UNCHANGED <<counter, returned>>

\* get_next_user_id, line 99-106: increment the counter, wrap around when
\* user_id exceeds the pool, release the lock and return
AllocFinish(w, t) ==
    /\ tpc[w][t] = "computed"
    /\ LET wraps == PoolExceeded(tid[w][t])
       IN /\ counter' = [counter EXCEPT ![w] = IF wraps THEN 0 ELSE @ + 1]
          /\ returned' = [returned EXCEPT ![w] =
                 Append(@, [id |-> IF wraps THEN base_id(w) ELSE tid[w][t],
                            wrapped |-> wraps, by |-> t])]
    /\ alock' = [alock EXCEPT ![w] = NoThread]
    /\ tpc' = [tpc EXCEPT ![w][t] = "idle"]
    /\ AllocFrame
    /\ UNCHANGED tid

\* get_user_count: with self._lock: return self._counter
get_user_count(w) == counter[w]
AllocNext ==
    \/ \E w \in Workers, t \in Threads : AllocEnter(w, t)
    \/ \E w \in Workers, t \in Threads : AllocFinish(w, t)

\* the thread that issues the scenario's calls, one after the other
SeqThread == 1

ScenarioNext ==
    \/ \E w \in Workers : AllocEnter(w, SeqThread)
    \/ \E w \in Workers : AllocFinish(w, SeqThread)

(***************************************************************************)
(* Connection sessions: MQTTSubscriberClient ("fanout"),                   *)
(* MQTTConnectionClient ("conntest"), GMQTTConnectionClient ("gmqtt"),     *)
(* driven by one virtual user.  The broker acknowledges a connection at    *)
(* most once; the ack reaches the session only while its network loop      *)
(* (paho) or client (gmqtt) is live.                                       *)
(***************************************************************************)
Variants == {"fanout", "conntest", "gmqtt"}
Sessions == 1..MaxSessions
NoSession == 0
NoAck == -1
NoRc == -1
\* CONNACK return codes: success, a non-authentication denial, and the two
\* authentication denials
RC == {0, 1, 4, 5}
\* the expected notification b"ALERT" as byte values
ALERT == <<65, 76, 69, 82, 84>>

\* message payloads as byte strings: the notification, the empty payload,
\* a truncated one, one with an extra byte and one with a non-UTF-8 byte
Payloads == {ALERT, <<>>, <<65, 76, 69, 82>>, ALERT \o <<33>>, ALERT \o <<255>>}

\* U+FFFD, the replacement character
REPLACEMENT == 65533

\* msg.payload.decode('utf-8', errors='replace') on ASCII bytes and bytes
\* that can never occur in UTF-8 (0xF8..0xFF)
Decode(b) == [i \in 1..Len(b) |-> IF b[i] < 128 THEN b[i] ELSE REPLACEMENT]

\* is_valid = payload == "ALERT"
IsValid(payload) == Decode(payload) = ALERT
ThisProc == 1
NoClientId == 0

\* the identity the virtual user drew in __init__ (user_num of client_id)
UserIdentity == 1

NewSession ==
    [client_id |-> NoClientId,
     connected |-> FALSE, connect_error |-> 0, has_client |-> FALSE,
     io_live |-> FALSE, cpc |-> "idle", result |-> "none",
     co_pc |-> "none", co_result |-> FALSE, event_set |-> FALSE,
     sub |-> "none", messages_received |-> 0, escaped |-> FALSE]

ConstructFreshIdentity(v) ==
    [NewSession EXCEPT !.has_client = (v # "gmqtt"), !.client_id = client_id + nsess]

\* MQTTSubscriberClient.__init__ / MQTTConnectionClient.__init__ create the
\* paho client; GMQTTConnectionClient.__init__ leaves self.client = None
Construct(v) == [NewSession EXCEPT !.has_client = (v # "gmqtt"), !.client_id = client_id]

ZeroConnStats == [total_attempts |-> 0, successful |-> 0, failed |-> 0, auth_failures |-> 0]
ZeroAlertStats == [total_received |-> 0, valid_alerts |-> 0, invalid_alerts |-> 0]

Event(s, name, ok, err, rc, valid) ==
    [sid |-> s, name |-> name, ok |-> ok, err |-> err, rc |-> rc, valid |-> valid]

AuthCountedForAnyDenial(st, ev) ==
    IF ev.name = "connect"
    THEN IF ~ev.ok
         THEN [st EXCEPT !.total_attempts = @ + 1, !.failed = @ + 1,
                         !.auth_failures = @ + 1]
         ELSE [st EXCEPT !.total_attempts = @ + 1, !.successful = @ + 1]
    ELSE st

ConnOnRequestAttemptsOnly(st, ev) ==
    IF ev.name = "connect"
    THEN IF ~ev.ok
         THEN [st EXCEPT !.total_attempts = @ + 1]
         ELSE [st EXCEPT !.total_attempts = @ + 1, !.successful = @ + 1]
    ELSE st

\* on_request of locustfile_connection_test.py and locustfile_distributed.py
ConnOnRequest(st, ev) ==
    IF ev.name = "connect"
    THEN IF ~ev.ok
         THEN [st EXCEPT !.total_attempts = @ + 1, !.failed = @ + 1,
                         !.auth_failures = IF ev.rc \in {4, 5} THEN @ + 1 ELSE @]
         ELSE [st EXCEPT !.total_attempts = @ + 1, !.successful = @ + 1]
    ELSE st

AlertOnRequestValidOnly(st, ev) ==
    IF ev.name = "alert_received" /\ ev.valid
    THEN [st EXCEPT !.total_received = @ + 1, !.valid_alerts = @ + 1]
    ELSE st

\* on_request of locustfile.py
AlertOnRequest(st, ev) ==
    IF ev.name = "alert_received"
    THEN IF ev.valid
         THEN [st EXCEPT !.total_received = @ + 1, !.valid_alerts = @ + 1]
         ELSE [st EXCEPT !.total_received = @ + 1, !.invalid_alerts = @ + 1]
    ELSE st

\* environment.events.request.fire(...): the module's listener runs inside
Fire(ev) ==
    /\ UNCHANGED <<allocVars, bridgeVars, reportVars>>
    /\ events' = [events EXCEPT ![ev.sid] = Append(@, ev)]
    /\ IF variant = "fanout"
       THEN /\ alert_stats' = [alert_stats EXCEPT ![ThisProc] = AlertOnRequest(@, ev)]
            /\ UNCHANGED connection_stats
       ELSE /\ connection_stats' = ConnOnRequest(connection_stats, ev)
            /\ UNCHANGED alert_stats

NoFire == UNCHANGED <<events, connection_stats, alert_stats, allocVars, bridgeVars, reportVars>>

DisconnectInvertedGuard(v, x) ==
    IF ~x.connected
    THEN [x EXCEPT !.io_live = FALSE, !.connected = FALSE]
    ELSE x

\* disconnect(): if self._connected: loop_stop(); client.disconnect();
\* self._connected = False   (gmqtt: if self._connected and self.client)
DisconnectOp(v, x) ==
    IF x.connected /\ (v = "gmqtt" => x.has_client)
    THEN [x EXCEPT !.io_live = FALSE, !.connected = FALSE]
    ELSE x

\* what the underlying client does inside disconnect(): nothing goes wrong,
\* the first call raises (loop_stop(); gmqtt: run_async), or the second
\* call raises (client.disconnect())
Faults == {"none", "early", "late"}

\* disconnect() when the underlying client raises.  MQTTSubscriberClient
\* has no try/except: the exception leaves disconnect() and _connected
\* keeps its value.  MQTTConnectionClient and GMQTTConnectionClient
\* swallow the exception and clear _connected.
DisconnectFailing(v, x, fault) ==
    IF ~(x.connected /\ (v = "gmqtt" => x.has_client))
    THEN x
    ELSE IF v = "fanout"
         THEN [x EXCEPT !.io_live = IF fault = "early" THEN @ ELSE FALSE,
                        !.escaped = TRUE]
         ELSE [x EXCEPT !.io_live = IF fault = "early" THEN @ ELSE FALSE,
                        !.connected = FALSE]

DisconnectCall(v, x, fault) ==
    IF fault = "none" THEN DisconnectOp(v, x) ELSE DisconnectFailing(v, x, fault)

UserFrame == UNCHANGED <<variant, user_kind, client_id, nsess, cur, ticks, msgVars, procVars>>
GhostFrame == UNCHANGED <<acked, timed_out, disc_calls, msgs>>


AfterConnect == IF user_kind = "burst" THEN "hold" ELSE "ready"

\* AlertSubscriber.on_start / MQTTConnectionUser.on_start:
\* construct the session, then call connect()
OnStart ==
    /\ upc = "new"
    /\ nsess < MaxSessions
    /\ nsess' = nsess + 1
    /\ cur' = nsess + 1
    /\ sess' = [sess EXCEPT ![nsess + 1] = Construct(variant)]
    /\ upc' = "call_connect"
    /\ NoFire /\ GhostFrame
    /\ UNCHANGED <<variant, user_kind, client_id, ticks, msgVars, procVars>>

NeedsReconnectNever == FALSE

\* if not self.mqtt_client or not self.mqtt_client.is_connected
NeedsReconnect == cur = NoSession \/ ~sess[cur].connected

\* wait_for_alert / maintain_connection with no connected session:
\* disconnect the old session, construct a fresh one, call connect()
TickReconnect ==
    /\ upc = "ready" /\ user_kind = "steady"
    /\ ticks < MaxTicks /\ nsess < MaxSessions
    /\ ticks' = ticks + 1
    /\ NeedsReconnect
    /\ nsess' = nsess + 1
    /\ cur' = nsess + 1
    /\ sess' = [s \in Sessions |->
                  IF s = nsess + 1 THEN Construct(variant)
                  ELSE IF s = cur THEN DisconnectOp(variant, sess[s])
                  ELSE sess[s]]
    /\ disc_calls' = [s \in Sessions |-> IF s = cur THEN disc_calls[s] + 1 ELSE disc_calls[s]]
    /\ upc' = "call_connect"
    /\ NoFire
    /\ UNCHANGED <<variant, user_kind, client_id, acked, timed_out, msgs, msgVars, procVars>>

TickIdleTearsDown ==
    /\ upc = "ready" /\ user_kind = "steady"
    /\ ticks < MaxTicks
    /\ ~NeedsReconnect
    /\ ticks' = ticks + 1
    /\ sess' = [sess EXCEPT ![cur] = DisconnectOp(variant, @)]
    /\ disc_calls' = [disc_calls EXCEPT ![cur] = @ + 1]
    /\ NoFire
    /\ UNCHANGED <<variant, user_kind, client_id, upc, cur, nsess, acked, timed_out, msgs,
                   msgVars, procVars>>

\* wait_for_alert / maintain_connection with a connected session
TickIdle ==
    /\ upc = "ready" /\ user_kind = "steady"
    /\ ticks < MaxTicks
    /\ ~NeedsReconnect
    /\ ticks' = ticks + 1
    /\ NoFire /\ GhostFrame
    /\ UNCHANGED <<variant, user_kind, client_id, upc, cur, nsess, sess, msgVars, procVars>>

\* BurstSubscriber.connect_disconnect_cycle up to its connect() call
BurstTick ==
    /\ upc = "ready" /\ user_kind = "burst"
    /\ ticks < MaxTicks /\ nsess < MaxSessions
    /\ ticks' = ticks + 1
    /\ nsess' = nsess + 1
    /\ cur' = nsess + 1
    /\ sess' = [sess EXCEPT ![nsess + 1] = Construct(variant)]
    /\ upc' = "call_connect"
    /\ NoFire /\ GhostFrame
    /\ UNCHANGED <<variant, user_kind, client_id, msgVars, procVars>>

\* BurstSubscriber.connect_disconnect_cycle after connect(): disconnect()
BurstDisconnect(fault) ==
    /\ upc = "hold"
    /\ fault # "none" => sess[cur].connected
    /\ sess' = [sess EXCEPT ![cur] = DisconnectCall(variant, @, fault)]
    /\ disc_calls' = [disc_calls EXCEPT ![cur] = @ + 1]
    /\ upc' = "ready"
    /\ NoFire /\ UserFrame
    /\ UNCHANGED <<acked, timed_out, msgs>>

\* on_stop: if self.mqtt_client: self.mqtt_client.disconnect(); the
\* underlying client can only raise when disconnect() calls it
OnStop(fault) ==
    /\ upc = "ready" /\ user_kind = "steady"
    /\ fault # "none" => (cur # NoSession /\ sess[cur].connected)
    /\ IF cur # NoSession
       THEN /\ sess' = [sess EXCEPT ![cur] = DisconnectCall(variant, @, fault)]
            /\ disc_calls' = [disc_calls EXCEPT ![cur] = @ + 1]
       ELSE UNCHANGED <<sess, disc_calls>>
    /\ upc' = "stopped"
    /\ NoFire /\ UserFrame
    /\ UNCHANGED <<acked, timed_out, msgs>>

\* paho connect() up to its wait loop: client.connect() raises, or
\* loop_start() starts the network loop
PahoConnectBegin(raises) ==
    /\ upc = "call_connect" /\ variant \in {"fanout", "conntest"}
    /\ IF raises
       THEN /\ sess' = [sess EXCEPT ![cur].connect_error = 0,
                                    ![cur].cpc = "done", ![cur].result = "false"]
            /\ Fire(Event(cur, "connect", FALSE, "transport", NoRc, FALSE))
            /\ upc' = AfterConnect
       ELSE /\ sess' = [sess EXCEPT ![cur].connect_error = 0,
                                    ![cur].io_live = TRUE, ![cur].cpc = "waiting"]
            /\ NoFire
            /\ upc' = "in_connect"
    /\ UserFrame /\ GhostFrame

\* MQTTSubscriberClient._on_connect
FanOnConnect(s, rc) ==
    /\ variant = "fanout"
    /\ sess[s].io_live /\ acked[s] = NoAck
    /\ acked' = [acked EXCEPT ![s] = rc]
    /\ IF rc = 0
       THEN /\ sess' = [sess EXCEPT ![s].connected = TRUE, ![s].sub = "pending"]
            /\ Fire(Event(s, "connect", TRUE, "none", NoRc, FALSE))
       ELSE /\ sess' = [sess EXCEPT ![s].connected = FALSE]
            /\ Fire(Event(s, "connect", FALSE, "denied", NoRc, FALSE))
    /\ UserFrame /\ UNCHANGED <<upc, timed_out, disc_calls, msgs>>

ConnOnConnectAcceptsDenial(s, rc) ==
    /\ variant = "conntest"
    /\ sess[s].io_live /\ acked[s] = NoAck
    /\ acked' = [acked EXCEPT ![s] = rc]
    /\ sess' = [sess EXCEPT ![s].connected = TRUE]
    /\ Fire(Event(s, "connect", TRUE, "none", NoRc, FALSE))
    /\ UserFrame /\ UNCHANGED <<upc, timed_out, disc_calls, msgs>>
\* MQTTConnectionClient._on_connect
ConnOnConnect(s, rc) ==
    /\ variant = "conntest"
    /\ sess[s].io_live /\ acked[s] = NoAck
    /\ acked' = [acked EXCEPT ![s] = rc]
    /\ IF rc = 0
       THEN /\ sess' = [sess EXCEPT ![s].connected = TRUE]
            /\ Fire(Event(s, "connect", TRUE, "none", NoRc, FALSE))
       ELSE /\ sess' = [sess EXCEPT ![s].connect_error = rc]
            /\ Fire(Event(s, "connect", FALSE, "denied", rc, FALSE))
    /\ UserFrame /\ UNCHANGED <<upc, timed_out, disc_calls, msgs>>

\* MQTTSubscriberClient.connect: the wait loop ends, return self._connected
FanWaitExit(expired) ==
    /\ upc = "in_connect" /\ variant = "fanout"
    /\ sess[cur].cpc = "waiting"
    /\ sess[cur].connected \/ expired
    /\ sess' = [sess EXCEPT ![cur].cpc = "done",
                            ![cur].result = IF sess[cur].connected THEN "true" ELSE "false"]
    /\ timed_out' = [timed_out EXCEPT ![cur] = (acked[cur] = NoAck)]
    /\ upc' = AfterConnect
    /\ NoFire /\ UserFrame
    /\ UNCHANGED <<acked, disc_calls, msgs>>

\* MQTTConnectionClient.connect: the wait loop ends; return True, or raise
\* and fire the failed outcome in the except clause
ConnWaitExit(expired) ==
    /\ upc = "in_connect" /\ variant = "conntest"
    /\ sess[cur].cpc = "waiting"
    /\ sess[cur].connected \/ sess[cur].connect_error # 0 \/ expired
    /\ IF sess[cur].connected
       THEN /\ sess' = [sess EXCEPT ![cur].cpc = "done", ![cur].result = "true"]
            /\ NoFire
       ELSE /\ sess' = [sess EXCEPT ![cur].cpc = "done", ![cur].result = "false"]
            /\ IF sess[cur].connect_error # 0
               THEN Fire(Event(cur, "connect", FALSE, "denied", NoRc, FALSE))
               ELSE Fire(Event(cur, "connect", FALSE, "timeout", NoRc, FALSE))
    /\ timed_out' = [timed_out EXCEPT ![cur] = (acked[cur] = NoAck)]
    /\ upc' = AfterConnect
    /\ UserFrame
    /\ UNCHANGED <<acked, disc_calls, msgs>>

\* _on_disconnect of the three clients
OnDisconnect(s) ==
    /\ sess[s].io_live /\ sess[s].connected
    /\ sess' = [sess EXCEPT ![s].connected = FALSE]
    /\ NoFire /\ UserFrame /\ GhostFrame
    /\ UNCHANGED upc

\* MQTTSubscriberClient._on_subscribe
FanOnSubscribe(s) ==
    /\ variant = "fanout"
    /\ sess[s].io_live /\ sess[s].connected /\ sess[s].sub = "pending"
    /\ sess' = [sess EXCEPT ![s].sub = "acked"]
    /\ Fire(Event(s, "subscribe", TRUE, "none", NoRc, FALSE))
    /\ UserFrame /\ GhostFrame
    /\ UNCHANGED upc

\* subscribe() has been called in _on_connect: the broker may deliver a
\* matching PUBLISH from then on, before or after its SUBACK
SubscriptionRequested(x) == x.sub \in {"pending", "acked"}

\* MQTTSubscriberClient._on_message
FanOnMessage(s, payload) ==
    /\ variant = "fanout"
    /\ sess[s].io_live /\ sess[s].connected /\ SubscriptionRequested(sess[s])
    /\ msgs < MaxMsgs
    /\ msgs' = msgs + 1
    /\ sess' = [sess EXCEPT ![s].messages_received = @ + 1]
    /\ LET is_valid == IsValid(payload)
       IN Fire(Event(s, "alert_received", is_valid,
                     IF is_valid THEN "none" ELSE "payload", NoRc, is_valid))
    /\ UserFrame
    /\ UNCHANGED <<upc, acked, timed_out, disc_calls>>

(***************************************************************************)
(* MQTTSubscriberClient._on_message run by several callback threads on one *)
(* connected and subscribed session (the user's current one).              *)
(***************************************************************************)
CallbackThreads == 1..NumCallbackThreads
NoCallback == 0

MsgFrame == UNCHANGED <<procVars, variant, user_kind, client_id, upc, cur, nsess, ticks, acked, timed_out,
                        disc_calls, msgs>>

InCallback == {t \in CallbackThreads : mpc[t] # "idle"}

MessageLockIgnored == TRUE

\* with self._lock: the session's lock is free
MessageLockAvailable == mlock = NoCallback

\* _on_message: take self._lock and read self.messages_received
OnMessageEnter(t, payload) ==
    /\ variant = "fanout" /\ cur # NoSession
    /\ sess[cur].io_live /\ sess[cur].connected /\ sess[cur].sub = "acked"
    /\ mpc[t] = "idle"
    /\ Len(classified) + Cardinality(InCallback) < MaxDeliveries
    /\ MessageLockAvailable
    /\ mlock' = t
    /\ mtmp' = [mtmp EXCEPT ![t] = sess[cur].messages_received]
    /\ mpayload' = [mpayload EXCEPT ![t] = payload]
    /\ mpc' = [mpc EXCEPT ![t] = "locked"]
    /\ NoFire /\ MsgFrame
    /\ UNCHANGED <<sess, stores, classified>>

\* _on_message: store self.messages_received + 1 and release self._lock
OnMessageCount(t) ==
    /\ mpc[t] = "locked"
    /\ sess' = [sess EXCEPT ![cur].messages_received = mtmp[t] + 1]
    /\ mlock' = NoCallback
    /\ stores' = stores + 1
    /\ mpc' = [mpc EXCEPT ![t] = "classify"]
    /\ NoFire /\ MsgFrame
    /\ UNCHANGED <<mtmp, mpayload, classified>>

\* _on_message: decode and classify the payload, fire alert_received
OnMessageFire(t) ==
    /\ mpc[t] = "classify"
    /\ LET is_valid == IsValid(mpayload[t])
       IN /\ Fire(Event(cur, "alert_received", is_valid,
                        IF is_valid THEN "none" ELSE "payload", NoRc, is_valid))
          /\ classified' = Append(classified, [payload |-> mpayload[t], valid |-> is_valid])
    /\ mpc' = [mpc EXCEPT ![t] = "idle"]
    /\ MsgFrame
    /\ UNCHANGED <<sess, mlock, mtmp, mpayload, stores>>

MessageNext ==
    \/ \E t \in CallbackThreads, payload \in Payloads : OnMessageEnter(t, payload)
    \/ \E t \in CallbackThreads : OnMessageCount(t)
    \/ \E t \in CallbackThreads : OnMessageFire(t)

\* GMQTTConnectionClient.connect: run_async submits _connect_async to the
\* loop and blocks on future.result
GConnectCall ==
    /\ upc = "call_connect" /\ variant = "gmqtt"
    /\ sess' = [sess EXCEPT ![cur].cpc = "waiting", ![cur].co_pc = "scheduled"]
    /\ upc' = "in_connect"
    /\ NoFire /\ UserFrame /\ GhostFrame

\* _connect_async up to the first await: reset error, new asyncio.Event,
\* create the gmqtt client and start client.connect()
GCoStart(s) ==
    /\ variant = "gmqtt"
    /\ sess[s].co_pc = "scheduled"
    /\ sess' = [sess EXCEPT ![s].connect_error = 0, ![s].event_set = FALSE,
                            ![s].has_client = TRUE, ![s].io_live = TRUE,
                            ![s].co_pc = "connecting"]
    /\ NoFire /\ UserFrame /\ GhostFrame
    /\ UNCHANGED upc

\* await wait_for(client.connect(...)) completes
GCoConnectDone(s) ==
    /\ variant = "gmqtt"
    /\ sess[s].co_pc = "connecting"
    /\ sess' = [sess EXCEPT ![s].co_pc = "await_connack"]
    /\ NoFire /\ UserFrame /\ GhostFrame
    /\ UNCHANGED upc

\* await wait_for(client.connect(...)) raises (transport error) or times
\* out: the except clause fires the failed outcome and returns False
GCoConnectFail(s, kind) ==
    /\ variant = "gmqtt"
    /\ sess[s].co_pc = "connecting"
    /\ sess' = [sess EXCEPT ![s].co_pc = "done", ![s].co_result = FALSE,
                            ![s].io_live = IF kind = "transport" THEN FALSE ELSE @]
    /\ Fire(Event(s, "connect", FALSE, kind, NoRc, FALSE))
    /\ timed_out' = [timed_out EXCEPT ![s] = @ \/ (kind = "timeout" /\ acked[s] = NoAck)]
    /\ UserFrame
    /\ UNCHANGED <<upc, acked, disc_calls, msgs>>

\* GMQTTConnectionClient._on_connect
GOnConnect(s, rc) ==
    /\ variant = "gmqtt"
    /\ sess[s].io_live /\ acked[s] = NoAck
    /\ acked' = [acked EXCEPT ![s] = rc]
    /\ IF rc = 0
       THEN /\ sess' = [sess EXCEPT ![s].connected = TRUE, ![s].event_set = TRUE]
            /\ Fire(Event(s, "connect", TRUE, "none", NoRc, FALSE))
       ELSE /\ sess' = [sess EXCEPT ![s].connect_error = rc, ![s].event_set = TRUE]
            /\ Fire(Event(s, "connect", FALSE, "denied", rc, FALSE))
    /\ UserFrame /\ UNCHANGED <<upc, timed_out, disc_calls, msgs>>

\* _connect_async after the CONNACK wait: the event was set, or the wait
\* timed out
GCoConnack(s, expired) ==
    /\ variant = "gmqtt"
    /\ sess[s].co_pc = "await_connack"
    /\ sess[s].event_set \/ expired
    /\ IF sess[s].event_set /\ sess[s].connected
       THEN /\ sess' = [sess EXCEPT ![s].co_pc = "done", ![s].co_result = TRUE]
            /\ NoFire
            /\ UNCHANGED timed_out
       ELSE /\ sess' = [sess EXCEPT ![s].co_pc = "done", ![s].co_result = FALSE]
            /\ IF ~sess[s].event_set
               THEN /\ Fire(Event(s, "connect", FALSE, "timeout", NoRc, FALSE))
                    /\ timed_out' = [timed_out EXCEPT ![s] = @ \/ acked[s] = NoAck]
               ELSE /\ IF sess[s].connect_error # 0
                       THEN Fire(Event(s, "connect", FALSE, "denied", NoRc, FALSE))
                       ELSE Fire(Event(s, "connect", FALSE, "failed", NoRc, FALSE))
                    /\ UNCHANGED timed_out
    /\ UserFrame
    /\ UNCHANGED <<upc, acked, disc_calls, msgs>>

\* run_async: future.result returns the coroutine's result
GBridgeReturn ==
    /\ upc = "in_connect" /\ variant = "gmqtt"
    /\ sess[cur].cpc = "waiting" /\ sess[cur].co_pc = "done"
    /\ sess' = [sess EXCEPT ![cur].cpc = "done",
                            ![cur].result = IF sess[cur].co_result THEN "true" ELSE "false"]
    /\ upc' = AfterConnect
    /\ NoFire /\ UserFrame /\ GhostFrame

\* run_async: future.result(timeout=connect_timeout + 5) raises; connect()
\* fires the failed outcome and returns False; the coroutine is not cancelled
GBridgeTimeout ==
    /\ upc = "in_connect" /\ variant = "gmqtt"
    /\ sess[cur].cpc = "waiting" /\ sess[cur].co_pc # "done"
    /\ sess' = [sess EXCEPT ![cur].cpc = "done", ![cur].result = "false"]
    /\ Fire(Event(cur, "connect", FALSE, "timeout", NoRc, FALSE))
    /\ timed_out' = [timed_out EXCEPT ![cur] = @ \/ acked[cur] = NoAck]
    /\ upc' = AfterConnect
    /\ UserFrame
    /\ UNCHANGED <<acked, disc_calls, msgs>>

SessionNext ==
    \/ OnStart
    \/ TickReconnect
    \/ TickIdle
    \/ BurstTick
    \/ \E fault \in Faults : BurstDisconnect(fault)
    \/ \E fault \in Faults : OnStop(fault)
    \/ \E raises \in BOOLEAN : PahoConnectBegin(raises)
    \/ \E s \in Sessions, rc \in RC : FanOnConnect(s, rc)
    \/ \E s \in Sessions, rc \in RC : ConnOnConnect(s, rc)
    \/ \E expired \in BOOLEAN : FanWaitExit(expired)
    \/ \E expired \in BOOLEAN : ConnWaitExit(expired)
    \/ \E s \in Sessions : OnDisconnect(s)
    \/ \E s \in Sessions : FanOnSubscribe(s)
    \/ \E s \in Sessions, payload \in Payloads : FanOnMessage(s, payload)
    \/ GConnectCall
    \/ \E s \in Sessions : GCoStart(s)
    \/ \E s \in Sessions : GCoConnectDone(s)
    \/ \E s \in Sessions, kind \in {"transport", "timeout"} : GCoConnectFail(s, kind)
    \/ \E s \in Sessions, rc \in RC : GOnConnect(s, rc)
    \/ \E s \in Sessions, expired \in BOOLEAN : GCoConnack(s, expired)
    \/ GBridgeReturn
    \/ GBridgeTimeout

(***************************************************************************)
(* A steady user that keeps running against a broker that may refuse, drop *)
(* or ignore the first attempts and acknowledges the attempts from         *)
(* HealthyFrom on with success before any timeout runs out.                *)
(***************************************************************************)
HealthyFrom == MaxSessions

Healthy(s) == s >= HealthyFrom

RetryNext ==
    \/ OnStart
    \/ TickReconnect
    \/ TickIdle
    \/ \E raises \in BOOLEAN : (raises => ~Healthy(cur)) /\ PahoConnectBegin(raises)
    \/ \E s \in Sessions, rc \in RC : (rc # 0 => ~Healthy(s)) /\ FanOnConnect(s, rc)
    \/ \E s \in Sessions, rc \in RC : (rc # 0 => ~Healthy(s)) /\ ConnOnConnect(s, rc)
    \/ \E expired \in BOOLEAN : (expired => ~Healthy(cur)) /\ FanWaitExit(expired)
    \/ \E expired \in BOOLEAN : (expired => ~Healthy(cur)) /\ ConnWaitExit(expired)
    \/ GConnectCall
    \/ \E s \in Sessions : GCoStart(s)
    \/ \E s \in Sessions : GCoConnectDone(s)
    \/ \E s \in Sessions, kind \in {"transport", "timeout"} :
            ~Healthy(s) /\ GCoConnectFail(s, kind)
    \/ \E s \in Sessions, rc \in RC : (rc # 0 => ~Healthy(s)) /\ GOnConnect(s, rc)
    \/ \E s \in Sessions, expired \in BOOLEAN :
            (expired => ~Healthy(s)) /\ GCoConnack(s, expired)
    \/ GBridgeReturn
    \/ ~Healthy(cur) /\ GBridgeTimeout

(***************************************************************************)
(* Background event loop and the sync/async bridge (get_event_loop,        *)
(* run_async).  Time is counted in whole units; time.sleep and the wait    *)
(* in future.result let time pass.                                         *)
(***************************************************************************)
Callers == 1..NumCallers
NoCaller == 0
NoLoop == 0

\* future.result(timeout=CONFIG.connect_timeout + 5)
GRACE == 5

ResultTimeout == connect_timeout + GRACE

BridgeFrame == UNCHANGED <<connect_timeout, tspc, tsgot, allocVars, sessVars, reportVars, msgVars, procVars>>

\* a synchronous thread calls run_async(coro)
BCall(c) ==
    /\ bpc[c] = "idle"
    /\ bpc' = [bpc EXCEPT ![c] = "lock_wait"]
    /\ BridgeFrame
    /\ UNCHANGED <<loop_state, loops_created, loop_lock, loop_cur, elapsed, waited, work, outcome, got>>

LoopLockIgnored == TRUE

\* with _loop_lock: the lock is free
LoopLockAvailable == loop_lock = NoCaller

\* get_event_loop: take _loop_lock; if there is no running loop create one
\* and start its thread, then wait for it to run; otherwise return the
\* loop, and run_async submits the coroutine and waits on the future
BGetLoop(c) ==
    /\ bpc[c] = "lock_wait"
    /\ LoopLockAvailable
    /\ IF loop_state # "running"
       THEN /\ loop_state' = "starting"
            /\ loops_created' = loops_created + 1
            /\ loop_lock' = c
            /\ bpc' = [bpc EXCEPT ![c] = "spin"]
            /\ UNCHANGED <<work, waited, got>>
       ELSE /\ bpc' = [bpc EXCEPT ![c] = "result_wait"]
            /\ got' = [got EXCEPT ![c] = loops_created]
            /\ work' = [work EXCEPT ![c] = "queued"]
            /\ waited' = [waited EXCEPT ![c] = 0]
            /\ UNCHANGED <<loop_state, loops_created, loop_lock>>
    /\ BridgeFrame
    /\ UNCHANGED <<loop_cur, elapsed, outcome>>

\* run_loop on the loop thread: _loop.run_forever() starts running
BLoopRun ==
    /\ loop_state = "starting"
    /\ loop_state' = "running"
    /\ BridgeFrame
    /\ UNCHANGED <<loops_created, loop_lock, loop_cur, bpc, elapsed, waited, work, outcome, got>>

BSpinExitKeepsLock(c) ==
    /\ bpc[c] = "spin"
    /\ loop_state = "running"
    /\ got' = [got EXCEPT ![c] = loops_created]
    /\ bpc' = [bpc EXCEPT ![c] = "result_wait"]
    /\ work' = [work EXCEPT ![c] = "queued"]
    /\ waited' = [waited EXCEPT ![c] = 0]
    /\ BridgeFrame
    /\ UNCHANGED <<loop_state, loops_created, loop_lock, loop_cur, elapsed, outcome>>

\* get_event_loop: "while not _loop.is_running()" ends; the lock is
\* released; run_async submits the coroutine and waits on the future
BSpinExit(c) ==
    /\ bpc[c] = "spin"
    /\ loop_state = "running"
    /\ loop_lock' = NoCaller
    /\ got' = [got EXCEPT ![c] = loops_created]
    /\ bpc' = [bpc EXCEPT ![c] = "result_wait"]
    /\ work' = [work EXCEPT ![c] = "queued"]
    /\ waited' = [waited EXCEPT ![c] = 0]
    /\ BridgeFrame
    /\ UNCHANGED <<loop_state, loops_created, loop_cur, elapsed, outcome>>

LoopThreadShared == TRUE

\* the loop thread is between two callbacks of run_forever
LoopThreadIdle == loop_cur = NoCaller

\* the loop thread runs the submitted coroutine up to its next await
BUnitRun(c) ==
    /\ loop_state = "running"
    /\ LoopThreadIdle
    /\ work[c] \in {"queued", "suspended"}
    /\ work' = [work EXCEPT ![c] = "running"]
    /\ loop_cur' = c
    /\ BridgeFrame
    /\ UNCHANGED <<loop_state, loops_created, loop_lock, bpc, elapsed, waited, outcome, got>>

\* the states of a coroutine in which the loop thread is executing it
OnLoopThread == {"running", "cb_lock_wait", "cb_spin", "signalled"}

\* the client's on_connect callback runs inside the unit, on the loop
\* thread: _on_connect reaches "loop = get_event_loop()"
BOnConnect(c) ==
    /\ work[c] = "running"
    /\ loop_cur = c
    /\ work' = [work EXCEPT ![c] = "cb_lock_wait"]
    /\ BridgeFrame
    /\ UNCHANGED <<loop_state, loops_created, loop_lock, loop_cur, bpc, elapsed, waited, outcome, got>>

\* _on_connect in get_event_loop: take _loop_lock; the loop is running, so
\* the lock is released, the loop returned and _connect_event.set scheduled
\* with call_soon_threadsafe; were it not running the callback would create
\* a loop and wait for it on the loop thread
BOnConnectGetLoop(c) ==
    /\ work[c] = "cb_lock_wait"
    /\ LoopLockAvailable
    /\ IF loop_state # "running"
       THEN /\ loop_state' = "starting"
            /\ loops_created' = loops_created + 1
            /\ loop_lock' = c
            /\ work' = [work EXCEPT ![c] = "cb_spin"]
       ELSE /\ work' = [work EXCEPT ![c] = "signalled"]
            /\ UNCHANGED <<loop_state, loops_created, loop_lock>>
    /\ BridgeFrame
    /\ UNCHANGED <<loop_cur, bpc, elapsed, waited, outcome, got>>

\* the coroutine awaits (suspends) or returns (its future is resolved)
BUnitYield(c, finished) ==
    /\ work[c] \in {"running", "signalled"}
    /\ loop_cur = c
    /\ work' = [work EXCEPT ![c] = IF finished THEN "finished" ELSE "suspended"]
    /\ loop_cur' = NoCaller
    /\ BridgeFrame
    /\ UNCHANGED <<loop_state, loops_created, loop_lock, bpc, elapsed, waited, outcome, got>>

\* future.result returns the coroutine's result
BResult(c) ==
    /\ bpc[c] = "result_wait"
    /\ work[c] = "finished"
    /\ bpc' = [bpc EXCEPT ![c] = "done"]
    /\ outcome' = [outcome EXCEPT ![c] = "result"]
    /\ BridgeFrame
    /\ UNCHANGED <<loop_state, loops_created, loop_lock, loop_cur, elapsed, waited, work, got>>

\* the bounded wait of future.result has run out
WaitExpired(c) == waited[c] >= ResultTimeout

\* future.result raises TimeoutError
BTimeout(c) ==
    /\ bpc[c] = "result_wait"
    /\ work[c] # "finished"
    /\ WaitExpired(c)
    /\ bpc' = [bpc EXCEPT ![c] = "done"]
    /\ outcome' = [outcome EXCEPT ![c] = "timeout"]
    /\ BridgeFrame
    /\ UNCHANGED <<loop_state, loops_created, loop_lock, loop_cur, elapsed, waited, work, got>>

Active(c) == bpc[c] \in {"lock_wait", "spin", "result_wait"}

\* the thread is blocked: on _loop_lock held by another thread, in
\* time.sleep(0.01) while the loop is not running, or in future.result
\* while the future is unresolved
Blocked(c) ==
    \/ bpc[c] = "lock_wait" /\ loop_lock # NoCaller
    \/ bpc[c] = "spin" /\ loop_state # "running"
    \/ bpc[c] = "result_wait" /\ work[c] # "finished"

\* one unit of time passes while every thread inside run_async is blocked
BTick ==
    /\ \E c \in Callers : Active(c)
    /\ \A c \in Callers : Active(c) => Blocked(c)
    /\ \A c \in Callers : Active(c) => elapsed[c] < ResultTimeout + MaxExtra
    /\ \A c \in Callers : bpc[c] = "result_wait" => ~WaitExpired(c)
    /\ elapsed' = [c \in Callers |-> IF Active(c) THEN elapsed[c] + 1 ELSE elapsed[c]]
    /\ waited' = [c \in Callers |-> IF bpc[c] = "result_wait" THEN waited[c] + 1 ELSE waited[c]]
    /\ BridgeFrame
    /\ UNCHANGED <<loop_state, loops_created, loop_lock, loop_cur, bpc, work, outcome, got>>

BridgeNext ==
    \/ \E c \in Callers : BCall(c)
    \/ \E c \in Callers : BGetLoop(c)
    \/ BLoopRun
    \/ \E c \in Callers : BSpinExit(c)
    \/ \E c \in Callers : BUnitRun(c)
    \/ \E c \in Callers, finished \in BOOLEAN : BUnitYield(c, finished)
    \/ \E c \in Callers : BResult(c)
    \/ \E c \in Callers : BTimeout(c)
    \/ BTick

\* run_async has returned the coroutine's result; the thread goes on and may
\* call run_async again (connect, then disconnect, then the next connect)
BReturn(c) ==
    /\ bpc[c] = "done"
    /\ work[c] = "finished"
    /\ bpc' = [bpc EXCEPT ![c] = "idle"]
    /\ work' = [work EXCEPT ![c] = "none"]
    /\ outcome' = [outcome EXCEPT ![c] = "none"]
    /\ BridgeFrame
    /\ UNCHANGED <<loop_state, loops_created, loop_lock, loop_cur, elapsed, waited, got>>

\* the thread that runs the test_start listener; it holds _loop_lock under
\* this identity
TestStartThread == NumCallers + 1

StartFrame == UNCHANGED <<connect_timeout, loop_cur, bpc, elapsed, waited, work, outcome, got,
                          allocVars, sessVars, reportVars, msgVars, procVars>>

\* on_test_start is fired and reaches its call of get_event_loop()
TSCall ==
    /\ tspc = "idle"
    /\ tspc' = "lock_wait"
    /\ StartFrame
    /\ UNCHANGED <<loop_state, loops_created, loop_lock, tsgot>>

\* on_test_start in get_event_loop: take _loop_lock; create and start the
\* loop if none is running, else return the running one
TSGetLoop ==
    /\ tspc = "lock_wait"
    /\ LoopLockAvailable
    /\ IF loop_state # "running"
       THEN /\ loop_state' = "starting"
            /\ loops_created' = loops_created + 1
            /\ loop_lock' = TestStartThread
            /\ tspc' = "spin"
            /\ UNCHANGED tsgot
       ELSE /\ tspc' = "done"
            /\ tsgot' = loops_created
            /\ UNCHANGED <<loop_state, loops_created, loop_lock>>
    /\ StartFrame

\* on_test_start in get_event_loop: the loop is running; release the lock
\* and return the loop
TSSpinExit ==
    /\ tspc = "spin"
    /\ loop_state = "running"
    /\ loop_lock' = NoCaller
    /\ tsgot' = loops_created
    /\ tspc' = "done"
    /\ StartFrame
    /\ UNCHANGED <<loop_state, loops_created>>

\* get_event_loop and the loop's execution of the submitted coroutines alone:
\* every future is awaited until it is resolved
LoopNext ==
    \/ \E c \in Callers : BCall(c)
    \/ \E c \in Callers : BGetLoop(c)
    \/ BLoopRun
    \/ \E c \in Callers : BSpinExit(c)
    \/ \E c \in Callers : BUnitRun(c)
    \/ \E c \in Callers : BOnConnect(c)
    \/ \E c \in Callers : BOnConnectGetLoop(c)
    \/ \E c \in Callers, finished \in BOOLEAN : BUnitYield(c, finished)
    \/ \E c \in Callers : BResult(c)
    \/ \E c \in Callers : BReturn(c)
    \/ TSCall
    \/ TSGetLoop
    \/ TSSpinExit

(***************************************************************************)
(* Distributed reporting of alert_stats (locustfile.py): process 0 is the  *)
(* coordinator, processes 1..NumWorkers are workers.                       *)
(***************************************************************************)
Coordinator == 0
WorkerProcs == 1..NumWorkers
StatKeys == {"total_received", "valid_alerts", "invalid_alerts"}

ReportFrame == UNCHANGED <<allocVars, bridgeVars, msgVars, procVars, client_id, variant, user_kind, upc, cur, nsess,
                           ticks, sess, acked, timed_out, disc_calls, events,
                           connection_stats, msgs>>

RECURSIVE TotalAlerts(_)
TotalAlerts(P) ==
    IF P = {} THEN 0
    ELSE LET p == CHOOSE q \in P : TRUE
         IN alert_stats[p].total_received + TotalAlerts(P \ {p})

\* on_request on a worker for an alert_received outcome
WorkerAlert(p, valid) ==
    /\ TotalAlerts(WorkerProcs) < MaxAlerts
    /\ alert_stats' = [alert_stats EXCEPT ![p] =
                          AlertOnRequest(@, Event(1, "alert_received", valid,
                                                  IF valid THEN "none" ELSE "payload",
                                                  NoRc, valid))]
    /\ ReportFrame
    /\ UNCHANGED <<sent, merged>>

ReportsOf(p) == {i \in 1..Len(sent) : sent[i].from = p}

\* on_report_to_master: data['alert_stats'] = alert_stats.copy()
OnReportToMaster(p) ==
    /\ Len(sent) < MaxReports
    /\ sent' = Append(sent, [from |-> p, data |-> [alert_stats |-> alert_stats[p]]])
    /\ ReportFrame
    /\ UNCHANGED <<alert_stats, merged>>

DictGet(d, k) == IF k \in DOMAIN d THEN d[k] ELSE 0

MergeReplace(st, data) ==
    IF "alert_stats" \in DOMAIN data
    THEN [k \in DOMAIN st |-> DictGet(data.alert_stats, k)]
    ELSE st

\* on_worker_report: alert_stats[key] += data['alert_stats'].get(key, 0)
Merge(st, data) ==
    IF "alert_stats" \in DOMAIN data
    THEN [k \in DOMAIN st |-> st[k] + DictGet(data.alert_stats, k)]
    ELSE st

Unmerged == {i \in 1..Len(sent) : \A j \in 1..Len(merged) : merged[j] # i}

\* on_worker_report on the coordinator, for any report still in flight
OnWorkerReport(i) ==
    /\ i \in Unmerged
    /\ alert_stats' = [alert_stats EXCEPT ![Coordinator] = Merge(@, sent[i].data)]
    /\ merged' = Append(merged, i)
    /\ ReportFrame
    /\ UNCHANGED sent

ReportNext ==
    \/ \E p \in WorkerProcs, valid \in BOOLEAN : WorkerAlert(p, valid)
    \/ \E p \in WorkerProcs : OnReportToMaster(p)
    \/ \E i \in 1..MaxReports : OnWorkerReport(i)

(***************************************************************************)
(* The request listeners (on_request) run by several threads that fire     *)
(* outcome events at the same time.  A counter update is a load followed   *)
(* by a store; both happen while the thread holds stats_lock.              *)
(***************************************************************************)
Listeners == 1..NumListeners
NoListener == 0
NoEvent == Event(NoSession, "none", FALSE, "none", NoRc, FALSE)

StatsFrame == UNCHANGED <<allocVars, bridgeVars, reportVars, msgVars, counterVars, startVars, mergeVars,
                          variant, user_kind, client_id, upc, cur, nsess, ticks, sess,
                          acked, timed_out, disc_calls, events, msgs>>

\* the outcome events of the kind the module's listener counts
CountedEvents ==
    IF variant = "fanout"
    THEN {Event(NoSession, "alert_received", TRUE, "none", NoRc, TRUE),
          Event(NoSession, "alert_received", FALSE, "payload", NoRc, FALSE)}
    ELSE {Event(NoSession, "connect", TRUE, "none", NoRc, FALSE),
          Event(NoSession, "connect", FALSE, "denied", 5, FALSE),
          Event(NoSession, "connect", FALSE, "timeout", NoRc, FALSE)}

StatsLockIgnored == TRUE

\* with stats_lock: the lock is free
StatsLockAvailable == stats_lock = NoListener

\* on_request: the event is of the counted kind; take stats_lock and load
\* the counters
ListenerEnter(t, ev) ==
    /\ lpc[t] = "idle"
    /\ Len(delivered) < MaxEvents
    /\ StatsLockAvailable
    /\ stats_lock' = t
    /\ ltmp' = [ltmp EXCEPT ![t] = IF variant = "fanout" THEN alert_stats[ThisProc]
                                                          ELSE connection_stats]
    /\ lev' = [lev EXCEPT ![t] = ev]
    /\ lpc' = [lpc EXCEPT ![t] = "locked"]
    /\ delivered' = Append(delivered, [ev |-> ev, by |-> t])
    /\ StatsFrame
    /\ UNCHANGED <<connection_stats, alert_stats>>

\* on_request: store the raised total (total_attempts, total_received)
ListenerStoreTotal(t) ==
    /\ lpc[t] = "locked"
    /\ IF variant = "fanout"
       THEN /\ alert_stats' = [alert_stats EXCEPT ![ThisProc].total_received =
                                   AlertOnRequest(ltmp[t], lev[t]).total_received]
            /\ UNCHANGED connection_stats
       ELSE /\ connection_stats' = [connection_stats EXCEPT !.total_attempts =
                                        ConnOnRequest(ltmp[t], lev[t]).total_attempts]
            /\ UNCHANGED alert_stats
    /\ lpc' = [lpc EXCEPT ![t] = "counted"]
    /\ StatsFrame
    /\ UNCHANGED <<stats_lock, ltmp, lev, delivered>>

\* on_request: store the raised counter of the event's class and release
\* stats_lock
ListenerStore(t) ==
    /\ lpc[t] = "counted"
    /\ IF variant = "fanout"
       THEN /\ alert_stats' = [alert_stats EXCEPT ![ThisProc] = AlertOnRequest(ltmp[t], lev[t])]
            /\ UNCHANGED connection_stats
       ELSE /\ connection_stats' = ConnOnRequest(ltmp[t], lev[t])
            /\ UNCHANGED alert_stats
    /\ stats_lock' = NoListener
    /\ lpc' = [lpc EXCEPT ![t] = "idle"]
    /\ StatsFrame
    /\ UNCHANGED <<ltmp, lev, delivered>>

StatsNext ==
    \/ \E t \in Listeners, ev \in CountedEvents : ListenerEnter(t, ev)
    \/ \E t \in Listeners : ListenerStoreTotal(t)
    \/ \E t \in Listeners : ListenerStore(t)

(***************************************************************************)
(* locustfile_connection_test.py: the module-level user counter, the       *)
(* threads that construct MQTTConnectionUser objects, the test_start       *)
(* listener and the users the runner stops.                                *)
(***************************************************************************)
Spawners == 1..NumSpawners
NoSpawner == 0

\* Config.user_start and Config.user_prefix (defaults)
USER_START == 1
USER_PREFIX == "user"

\* f"{CONFIG.user_prefix}{user_num}"
ClientIdOf(user_num) == <<USER_PREFIX, user_num>>

CounterFrame == UNCHANGED <<allocVars, sessVars, bridgeVars, reportVars, msgVars, statVars, startVars,
                            mergeVars>>

InSpawn == {t \in Spawners : kpc[t] # "idle"}

\* MQTTConnectionUser.__init__ calls get_next_user_id: take
\* _user_counter_lock and load _user_counter
SpawnEnter(t) ==
    /\ kpc[t] = "idle"
    /\ Len(users) + Cardinality(InSpawn) < MaxUsers
    /\ user_counter < MaxUsers
    /\ user_counter_lock = NoSpawner
    /\ user_counter_lock' = t
    /\ ktmp' = [ktmp EXCEPT ![t] = user_counter]
    /\ kpc' = [kpc EXCEPT ![t] = "locked"]
    /\ CounterFrame
    /\ UNCHANGED <<user_counter, users, starts>>

\* get_next_user_id stores _user_counter + 1, releases the lock and returns
\* it; __init__ derives user_num and client_id and the user exists
SpawnFinish(t) ==
    /\ kpc[t] = "locked"
    /\ user_counter' = ktmp[t] + 1
    /\ user_counter_lock' = NoSpawner
    /\ LET user_num == USER_START + (ktmp[t] + 1) - 1
       IN users' = Append(users, ClientIdOf(user_num))
    /\ kpc' = [kpc EXCEPT ![t] = "idle"]
    /\ CounterFrame
    /\ UNCHANGED <<ktmp, starts>>

\* on_test_start: with _user_counter_lock: _user_counter = 0
TestStart ==
    /\ starts < MaxStarts
    /\ user_counter_lock = NoSpawner
    /\ user_counter' = 0
    /\ starts' = starts + 1
    /\ CounterFrame
    /\ UNCHANGED <<user_counter_lock, kpc, ktmp, users>>

\* the runner stops the i-th user (on_stop); the object is dropped
UserStop(i) ==
    /\ i \in 1..Len(users)
    /\ users' = SubSeq(users, 1, i - 1) \o SubSeq(users, i + 1, Len(users))
    /\ CounterFrame
    /\ UNCHANGED <<user_counter, user_counter_lock, kpc, ktmp, starts>>

CounterNext ==
    \/ \E t \in Spawners : SpawnEnter(t)
    \/ \E t \in Spawners : SpawnFinish(t)
    \/ TestStart
    \/ \E i \in 1..MaxUsers : UserStop(i)

(***************************************************************************)
(* locustfile.py: the runner constructs AlertSubscriber and BurstSubscriber *)
(* users in one process and stops them.                                    *)
(***************************************************************************)
\* largest CONFIG['user_max'] (environment USER_MAX) the model draws from
MaxUserNum == 3

UserKinds == {"steady", "burst"}

\* f"user{user_num}" of AlertSubscriber, f"burst-user{user_num}" of
\* BurstSubscriber
FanClientIdOf(kind, user_num) ==
    <<IF kind = "burst" THEN "burst-user" ELSE "user", user_num>>

\* AlertSubscriber.__init__ / BurstSubscriber.__init__:
\* user_num = random.randint(1, CONFIG['user_max'])
FanUserInit(kind, user_num) ==
    /\ Len(users) < MaxUsers
    /\ user_num \in 1..MaxUserNum
    /\ users' = Append(users, FanClientIdOf(kind, user_num))
    /\ CounterFrame
    /\ UNCHANGED <<user_counter, user_counter_lock, kpc, ktmp, starts>>

FanSpawnNext ==
    \/ \E kind \in UserKinds, user_num \in 1..MaxUserNum : FanUserInit(kind, user_num)
    \/ \E i \in 1..MaxUsers : UserStop(i)

(***************************************************************************)
(* locustfile_distributed.py run distributed: every process has its own    *)
(* connection_stats; the workers count their connect outcomes and every    *)
(* process runs on_test_stop at the end of the run.                        *)
(***************************************************************************)
Procs == {Coordinator} \cup WorkerProcs

ConnKeys == {"total_attempts", "successful", "failed", "auth_failures"}

ConnEvents ==
    {Event(NoSession, "connect", TRUE, "none", NoRc, FALSE),
     Event(NoSession, "connect", FALSE, "denied", 4, FALSE),
     Event(NoSession, "connect", FALSE, "timeout", NoRc, FALSE)}

RunFrame == UNCHANGED <<allocVars, sessVars, bridgeVars, reportVars, msgVars,
                        statVars, counterVars, startVars>>

SumConn(P, k) ==
    LET RECURSIVE Sum(_)
        Sum(S) == IF S = {} THEN 0
                  ELSE LET p == CHOOSE q \in S : TRUE
                       IN conn_stats[p][k] + Sum(S \ {p})
    IN Sum(P)

\* on_request in worker p: a connect outcome of one of its users is counted
WorkerConnect(p, ev) ==
    /\ ~stopped[p]
    /\ SumConn(WorkerProcs, "total_attempts") < MaxEvents
    /\ conn_stats' = [conn_stats EXCEPT ![p] = ConnOnRequest(@, ev)]
    /\ RunFrame
    /\ UNCHANGED stopped

\* on_test_stop in process p: the counters are written to the log
OnTestStop(p) ==
    /\ ~stopped[p]
    /\ stopped' = [stopped EXCEPT ![p] = TRUE]
    /\ RunFrame
    /\ UNCHANGED conn_stats

RunNext ==
    \/ \E p \in WorkerProcs, ev \in ConnEvents : WorkerConnect(p, ev)
    \/ \E p \in Procs : OnTestStop(p)

(***************************************************************************)
(* Start-up of a virtual user of locustfile_connection_test.py and         *)
(* locustfile_distributed.py: MQTT_BROKER, --host, and the broker address  *)
(* the user connects to.                                                   *)
(***************************************************************************)
NoBroker == ""

\* values of --host, split at the scheme and at the colon
Hosts == {<<>>, <<"mqtts://", "broker">>, <<"mqtt://", "broker", ":", "1883">>,
          <<"broker", ":", "8883">>}

\* host[8:] / host[7:], then the part before ":"
ParseHost(h) ==
    LET rest == IF Head(h) \in {"mqtts://", "mqtt://"} THEN Tail(h) ELSE h
    IN IF rest = <<>> THEN NoBroker ELSE Head(rest)

\* MQTTConnectionUser.__init__: self.broker from CONFIG.mqtt_broker, else
\* from self.host when one is given
UserInit ==
    /\ upc = "uninit"
    /\ broker' = IF mqtt_broker = NoBroker /\ host # <<>> THEN ParseHost(host) ELSE mqtt_broker
    /\ upc' = "new"
    /\ NoFire /\ GhostFrame
    /\ UNCHANGED <<variant, user_kind, client_id, nsess, cur, ticks, sess, msgVars,
                   statVars, counterVars, mergeVars, mqtt_broker, host>>

\* on_start and the connect() it calls, for the address the user holds:
\* paho's client.connect raises for an empty host
StartupNext ==
    \/ UserInit
    \/ OnStart
    \/ \E raises \in BOOLEAN : (broker = NoBroker => raises) /\ PahoConnectBegin(raises)
    \/ \E s \in Sessions, rc \in RC : ConnOnConnect(s, rc)
    \/ \E expired \in BOOLEAN : ConnWaitExit(expired)
    \/ GConnectCall
    \/ \E s \in Sessions : GCoStart(s)
    \/ \E s \in Sessions : GCoConnectDone(s)
    \/ \E s \in Sessions, kind \in {"transport", "timeout"} : GCoConnectFail(s, kind)
    \/ \E s \in Sessions, rc \in RC : GOnConnect(s, rc)
    \/ \E s \in Sessions, expired \in BOOLEAN : GCoConnack(s, expired)
    \/ GBridgeReturn
    \/ GBridgeTimeout

(***************************************************************************)
(* Specifications                                                          *)
(***************************************************************************)
\* a fan-out session after connect() returned True and the subscription was
\* confirmed, and the outcome events fired on the way
SubscribedSession ==
    [Construct("fanout") EXCEPT !.connected = TRUE, !.io_live = TRUE, !.cpc = "done",
                                !.result = "true", !.sub = "acked"]

SubscribedEvents ==
    <<Event(1, "connect", TRUE, "none", NoRc, FALSE),
      Event(1, "subscribe", TRUE, "none", NoRc, FALSE)>>

InitAlloc ==
    /\ worker_count \in 1..MaxWorkers
    /\ user_pool_size \in 1..MaxPool
    /\ instances \in {{w1, w2} : w1 \in 0..(worker_count - 1), w2 \in 0..(worker_count - 1)}
    /\ counter = [w \in Workers |-> 0]
    /\ alock = [w \in Workers |-> NoThread]
    /\ tpc = [w \in Workers |-> [t \in Threads |-> "idle"]]
    /\ tid = [w \in Workers |-> [t \in Threads |-> 0]]
    /\ returned = [w \in Workers |-> <<>>]
    /\ variant = "fanout"
    /\ user_kind = "steady"
    /\ client_id = UserIdentity
    /\ upc = "stopped"
    /\ cur = NoSession
    /\ nsess = 0
    /\ ticks = 0
    /\ sess = [s \in Sessions |-> NewSession]
    /\ acked = [s \in Sessions |-> NoAck]
    /\ timed_out = [s \in Sessions |-> FALSE]
    /\ disc_calls = [s \in Sessions |-> 0]
    /\ events = [s \in Sessions |-> <<>>]
    /\ connection_stats = ZeroConnStats
    /\ alert_stats = [p \in 0..NumWorkers |-> ZeroAlertStats]
    /\ msgs = 0
    /\ connect_timeout = 1
    /\ loop_state = "none"
    /\ loops_created = 0
    /\ loop_lock = NoCaller
    /\ loop_cur = NoCaller
    /\ bpc = [c \in Callers |-> "idle"]
    /\ elapsed = [c \in Callers |-> 0]
    /\ waited = [c \in Callers |-> 0]
    /\ work = [c \in Callers |-> "none"]
    /\ outcome = [c \in Callers |-> "none"]
    /\ got = [c \in Callers |-> NoLoop]
    /\ tspc = "idle"
    /\ tsgot = NoLoop
    /\ sent = <<>>
    /\ merged = <<>>
    /\ mlock = NoCallback
    /\ mpc = [t \in CallbackThreads |-> "idle"]
    /\ mtmp = [t \in CallbackThreads |-> 0]
    /\ mpayload = [t \in CallbackThreads |-> <<>>]
    /\ stores = 0
    /\ classified = <<>>
    /\ stats_lock = NoListener
    /\ lpc = [t \in Listeners |-> "idle"]
    /\ ltmp = [t \in Listeners |-> ZeroConnStats]
    /\ lev = [t \in Listeners |-> NoEvent]
    /\ delivered = <<>>
    /\ user_counter = 0
    /\ user_counter_lock = NoSpawner
    /\ kpc = [t \in Spawners |-> "idle"]
    /\ ktmp = [t \in Spawners |-> 0]
    /\ users = <<>>
    /\ starts = 0
    /\ mqtt_broker = "broker"
    /\ host = <<>>
    /\ broker = "broker"
    /\ conn_stats = [p \in 0..NumWorkers |-> ZeroConnStats]
    /\ stopped = [p \in 0..NumWorkers |-> FALSE]

InitScenario ==
    /\ worker_count = ScenarioWorkers
    /\ user_pool_size = ScenarioPool
    /\ instances = 0..(worker_count - 1)
    /\ counter = [w \in Workers |-> 0]
    /\ alock = [w \in Workers |-> NoThread]
    /\ tpc = [w \in Workers |-> [t \in Threads |-> "idle"]]
    /\ tid = [w \in Workers |-> [t \in Threads |-> 0]]
    /\ returned = [w \in Workers |-> <<>>]
    /\ variant = "fanout"
    /\ user_kind = "steady"
    /\ client_id = UserIdentity
    /\ upc = "stopped"
    /\ cur = NoSession
    /\ nsess = 0
    /\ ticks = 0
    /\ sess = [s \in Sessions |-> NewSession]
    /\ acked = [s \in Sessions |-> NoAck]
    /\ timed_out = [s \in Sessions |-> FALSE]
    /\ disc_calls = [s \in Sessions |-> 0]
    /\ events = [s \in Sessions |-> <<>>]
    /\ connection_stats = ZeroConnStats
    /\ alert_stats = [p \in 0..NumWorkers |-> ZeroAlertStats]
    /\ msgs = 0
    /\ connect_timeout = 1
    /\ loop_state = "none"
    /\ loops_created = 0
    /\ loop_lock = NoCaller
    /\ loop_cur = NoCaller
    /\ bpc = [c \in Callers |-> "idle"]
    /\ elapsed = [c \in Callers |-> 0]
    /\ waited = [c \in Callers |-> 0]
    /\ work = [c \in Callers |-> "none"]
    /\ outcome = [c \in Callers |-> "none"]
    /\ got = [c \in Callers |-> NoLoop]
    /\ tspc = "idle"
    /\ tsgot = NoLoop
    /\ sent = <<>>
    /\ merged = <<>>
    /\ mlock = NoCallback
    /\ mpc = [t \in CallbackThreads |-> "idle"]
    /\ mtmp = [t \in CallbackThreads |-> 0]
    /\ mpayload = [t \in CallbackThreads |-> <<>>]
    /\ stores = 0
    /\ classified = <<>>
    /\ stats_lock = NoListener
    /\ lpc = [t \in Listeners |-> "idle"]
    /\ ltmp = [t \in Listeners |-> ZeroConnStats]
    /\ lev = [t \in Listeners |-> NoEvent]
    /\ delivered = <<>>
    /\ user_counter = 0
    /\ user_counter_lock = NoSpawner
    /\ kpc = [t \in Spawners |-> "idle"]
    /\ ktmp = [t \in Spawners |-> 0]
    /\ users = <<>>
    /\ starts = 0
    /\ mqtt_broker = "broker"
    /\ host = <<>>
    /\ broker = "broker"
    /\ conn_stats = [p \in 0..NumWorkers |-> ZeroConnStats]
    /\ stopped = [p \in 0..NumWorkers |-> FALSE]

InitSession ==
    /\ worker_count = 1
    /\ user_pool_size = 1
    /\ instances = {0}
    /\ counter = [w \in Workers |-> 0]
    /\ alock = [w \in Workers |-> NoThread]
    /\ tpc = [w \in Workers |-> [t \in Threads |-> "idle"]]
    /\ tid = [w \in Workers |-> [t \in Threads |-> 0]]
    /\ returned = [w \in Workers |-> <<>>]
    /\ variant \in Variants
    /\ user_kind \in {"steady", "burst"}
    /\ client_id = UserIdentity
    /\ (user_kind = "burst" => variant = "fanout")
    /\ upc = IF user_kind = "burst" THEN "ready" ELSE "new"
    /\ cur = NoSession
    /\ nsess = 0
    /\ ticks = 0
    /\ sess = [s \in Sessions |-> NewSession]
    /\ acked = [s \in Sessions |-> NoAck]
    /\ timed_out = [s \in Sessions |-> FALSE]
    /\ disc_calls = [s \in Sessions |-> 0]
    /\ events = [s \in Sessions |-> <<>>]
    /\ connection_stats = ZeroConnStats
    /\ alert_stats = [p \in 0..NumWorkers |-> ZeroAlertStats]
    /\ msgs = 0
    /\ connect_timeout = 1
    /\ loop_state = "none"
    /\ loops_created = 0
    /\ loop_lock = NoCaller
    /\ loop_cur = NoCaller
    /\ bpc = [c \in Callers |-> "idle"]
    /\ elapsed = [c \in Callers |-> 0]
    /\ waited = [c \in Callers |-> 0]
    /\ work = [c \in Callers |-> "none"]
    /\ outcome = [c \in Callers |-> "none"]
    /\ got = [c \in Callers |-> NoLoop]
    /\ tspc = "idle"
    /\ tsgot = NoLoop
    /\ sent = <<>>
    /\ merged = <<>>
    /\ mlock = NoCallback
    /\ mpc = [t \in CallbackThreads |-> "idle"]
    /\ mtmp = [t \in CallbackThreads |-> 0]
    /\ mpayload = [t \in CallbackThreads |-> <<>>]
    /\ stores = 0
    /\ classified = <<>>
    /\ stats_lock = NoListener
    /\ lpc = [t \in Listeners |-> "idle"]
    /\ ltmp = [t \in Listeners |-> ZeroConnStats]
    /\ lev = [t \in Listeners |-> NoEvent]
    /\ delivered = <<>>
    /\ user_counter = 0
    /\ user_counter_lock = NoSpawner
    /\ kpc = [t \in Spawners |-> "idle"]
    /\ ktmp = [t \in Spawners |-> 0]
    /\ users = <<>>
    /\ starts = 0
    /\ mqtt_broker = "broker"
    /\ host = <<>>
    /\ broker = "broker"
    /\ conn_stats = [p \in 0..NumWorkers |-> ZeroConnStats]
    /\ stopped = [p \in 0..NumWorkers |-> FALSE]

InitBridge ==
    /\ worker_count = 1
    /\ user_pool_size = 1
    /\ instances = {0}
    /\ counter = [w \in Workers |-> 0]
    /\ alock = [w \in Workers |-> NoThread]
    /\ tpc = [w \in Workers |-> [t \in Threads |-> "idle"]]
    /\ tid = [w \in Workers |-> [t \in Threads |-> 0]]
    /\ returned = [w \in Workers |-> <<>>]
    /\ variant = "fanout"
    /\ user_kind = "steady"
    /\ client_id = UserIdentity
    /\ upc = "stopped"
    /\ cur = NoSession
    /\ nsess = 0
    /\ ticks = 0
    /\ sess = [s \in Sessions |-> NewSession]
    /\ acked = [s \in Sessions |-> NoAck]
    /\ timed_out = [s \in Sessions |-> FALSE]
    /\ disc_calls = [s \in Sessions |-> 0]
    /\ events = [s \in Sessions |-> <<>>]
    /\ connection_stats = ZeroConnStats
    /\ alert_stats = [p \in 0..NumWorkers |-> ZeroAlertStats]
    /\ msgs = 0
    /\ connect_timeout \in 1..MaxTimeout
    /\ loop_state = "none"
    /\ loops_created = 0
    /\ loop_lock = NoCaller
    /\ loop_cur = NoCaller
    /\ bpc = [c \in Callers |-> "idle"]
    /\ elapsed = [c \in Callers |-> 0]
    /\ waited = [c \in Callers |-> 0]
    /\ work = [c \in Callers |-> "none"]
    /\ outcome = [c \in Callers |-> "none"]
    /\ got = [c \in Callers |-> NoLoop]
    /\ tspc = "idle"
    /\ tsgot = NoLoop
    /\ sent = <<>>
    /\ merged = <<>>
    /\ mlock = NoCallback
    /\ mpc = [t \in CallbackThreads |-> "idle"]
    /\ mtmp = [t \in CallbackThreads |-> 0]
    /\ mpayload = [t \in CallbackThreads |-> <<>>]
    /\ stores = 0
    /\ classified = <<>>
    /\ stats_lock = NoListener
    /\ lpc = [t \in Listeners |-> "idle"]
    /\ ltmp = [t \in Listeners |-> ZeroConnStats]
    /\ lev = [t \in Listeners |-> NoEvent]
    /\ delivered = <<>>
    /\ user_counter = 0
    /\ user_counter_lock = NoSpawner
    /\ kpc = [t \in Spawners |-> "idle"]
    /\ ktmp = [t \in Spawners |-> 0]
    /\ users = <<>>
    /\ starts = 0
    /\ mqtt_broker = "broker"
    /\ host = <<>>
    /\ broker = "broker"
    /\ conn_stats = [p \in 0..NumWorkers |-> ZeroConnStats]
    /\ stopped = [p \in 0..NumWorkers |-> FALSE]

InitRetry ==
    /\ worker_count = 1
    /\ user_pool_size = 1
    /\ instances = {0}
    /\ counter = [w \in Workers |-> 0]
    /\ alock = [w \in Workers |-> NoThread]
    /\ tpc = [w \in Workers |-> [t \in Threads |-> "idle"]]
    /\ tid = [w \in Workers |-> [t \in Threads |-> 0]]
    /\ returned = [w \in Workers |-> <<>>]
    /\ variant \in Variants
    /\ user_kind = "steady"
    /\ client_id = UserIdentity
    /\ upc = "new"
    /\ cur = NoSession
    /\ nsess = 0
    /\ ticks = 0
    /\ sess = [s \in Sessions |-> NewSession]
    /\ acked = [s \in Sessions |-> NoAck]
    /\ timed_out = [s \in Sessions |-> FALSE]
    /\ disc_calls = [s \in Sessions |-> 0]
    /\ events = [s \in Sessions |-> <<>>]
    /\ connection_stats = ZeroConnStats
    /\ alert_stats = [p \in 0..NumWorkers |-> ZeroAlertStats]
    /\ msgs = 0
    /\ connect_timeout = 1
    /\ loop_state = "none"
    /\ loops_created = 0
    /\ loop_lock = NoCaller
    /\ loop_cur = NoCaller
    /\ bpc = [c \in Callers |-> "idle"]
    /\ elapsed = [c \in Callers |-> 0]
    /\ waited = [c \in Callers |-> 0]
    /\ work = [c \in Callers |-> "none"]
    /\ outcome = [c \in Callers |-> "none"]
    /\ got = [c \in Callers |-> NoLoop]
    /\ tspc = "idle"
    /\ tsgot = NoLoop
    /\ sent = <<>>
    /\ merged = <<>>
    /\ mlock = NoCallback
    /\ mpc = [t \in CallbackThreads |-> "idle"]
    /\ mtmp = [t \in CallbackThreads |-> 0]
    /\ mpayload = [t \in CallbackThreads |-> <<>>]
    /\ stores = 0
    /\ classified = <<>>
    /\ stats_lock = NoListener
    /\ lpc = [t \in Listeners |-> "idle"]
    /\ ltmp = [t \in Listeners |-> ZeroConnStats]
    /\ lev = [t \in Listeners |-> NoEvent]
    /\ delivered = <<>>
    /\ user_counter = 0
    /\ user_counter_lock = NoSpawner
    /\ kpc = [t \in Spawners |-> "idle"]
    /\ ktmp = [t \in Spawners |-> 0]
    /\ users = <<>>
    /\ starts = 0
    /\ mqtt_broker = "broker"
    /\ host = <<>>
    /\ broker = "broker"
    /\ conn_stats = [p \in 0..NumWorkers |-> ZeroConnStats]
    /\ stopped = [p \in 0..NumWorkers |-> FALSE]

InitMessage ==
    /\ worker_count = 1
    /\ user_pool_size = 1
    /\ instances = {0}
    /\ counter = [w \in Workers |-> 0]
    /\ alock = [w \in Workers |-> NoThread]
    /\ tpc = [w \in Workers |-> [t \in Threads |-> "idle"]]
    /\ tid = [w \in Workers |-> [t \in Threads |-> 0]]
    /\ returned = [w \in Workers |-> <<>>]
    /\ variant = "fanout"
    /\ user_kind = "steady"
    /\ client_id = UserIdentity
    /\ upc = "ready"
    /\ cur = 1
    /\ nsess = 1
    /\ ticks = 0
    /\ sess = [s \in Sessions |-> IF s = 1 THEN SubscribedSession ELSE NewSession]
    /\ acked = [s \in Sessions |-> IF s = 1 THEN 0 ELSE NoAck]
    /\ timed_out = [s \in Sessions |-> FALSE]
    /\ disc_calls = [s \in Sessions |-> 0]
    /\ events = [s \in Sessions |-> IF s = 1 THEN SubscribedEvents ELSE <<>>]
    /\ connection_stats = ZeroConnStats
    /\ alert_stats = [p \in 0..NumWorkers |-> ZeroAlertStats]
    /\ msgs = 0
    /\ connect_timeout = 1
    /\ loop_state = "none"
    /\ loops_created = 0
    /\ loop_lock = NoCaller
    /\ loop_cur = NoCaller
    /\ bpc = [c \in Callers |-> "idle"]
    /\ elapsed = [c \in Callers |-> 0]
    /\ waited = [c \in Callers |-> 0]
    /\ work = [c \in Callers |-> "none"]
    /\ outcome = [c \in Callers |-> "none"]
    /\ got = [c \in Callers |-> NoLoop]
    /\ tspc = "idle"
    /\ tsgot = NoLoop
    /\ sent = <<>>
    /\ merged = <<>>
    /\ mlock = NoCallback
    /\ mpc = [t \in CallbackThreads |-> "idle"]
    /\ mtmp = [t \in CallbackThreads |-> 0]
    /\ mpayload = [t \in CallbackThreads |-> <<>>]
    /\ stores = 0
    /\ classified = <<>>
    /\ stats_lock = NoListener
    /\ lpc = [t \in Listeners |-> "idle"]
    /\ ltmp = [t \in Listeners |-> ZeroConnStats]
    /\ lev = [t \in Listeners |-> NoEvent]
    /\ delivered = <<>>
    /\ user_counter = 0
    /\ user_counter_lock = NoSpawner
    /\ kpc = [t \in Spawners |-> "idle"]
    /\ ktmp = [t \in Spawners |-> 0]
    /\ users = <<>>
    /\ starts = 0
    /\ mqtt_broker = "broker"
    /\ host = <<>>
    /\ broker = "broker"
    /\ conn_stats = [p \in 0..NumWorkers |-> ZeroConnStats]
    /\ stopped = [p \in 0..NumWorkers |-> FALSE]

InitReport ==
    /\ worker_count = 1
    /\ user_pool_size = 1
    /\ instances = {0}
    /\ counter = [w \in Workers |-> 0]
    /\ alock = [w \in Workers |-> NoThread]
    /\ tpc = [w \in Workers |-> [t \in Threads |-> "idle"]]
    /\ tid = [w \in Workers |-> [t \in Threads |-> 0]]
    /\ returned = [w \in Workers |-> <<>>]
    /\ variant = "fanout"
    /\ user_kind = "steady"
    /\ client_id = UserIdentity
    /\ upc = "stopped"
    /\ cur = NoSession
    /\ nsess = 0
    /\ ticks = 0
    /\ sess = [s \in Sessions |-> NewSession]
    /\ acked = [s \in Sessions |-> NoAck]
    /\ timed_out = [s \in Sessions |-> FALSE]
    /\ disc_calls = [s \in Sessions |-> 0]
    /\ events = [s \in Sessions |-> <<>>]
    /\ connection_stats = ZeroConnStats
    /\ alert_stats = [p \in 0..NumWorkers |-> ZeroAlertStats]
    /\ msgs = 0
    /\ connect_timeout = 1
    /\ loop_state = "none"
    /\ loops_created = 0
    /\ loop_lock = NoCaller
    /\ loop_cur = NoCaller
    /\ bpc = [c \in Callers |-> "idle"]
    /\ elapsed = [c \in Callers |-> 0]
    /\ waited = [c \in Callers |-> 0]
    /\ work = [c \in Callers |-> "none"]
    /\ outcome = [c \in Callers |-> "none"]
    /\ got = [c \in Callers |-> NoLoop]
    /\ tspc = "idle"
    /\ tsgot = NoLoop
    /\ sent = <<>>
    /\ merged = <<>>
    /\ mlock = NoCallback
    /\ mpc = [t \in CallbackThreads |-> "idle"]
    /\ mtmp = [t \in CallbackThreads |-> 0]
    /\ mpayload = [t \in CallbackThreads |-> <<>>]
    /\ stores = 0
    /\ classified = <<>>
    /\ stats_lock = NoListener
    /\ lpc = [t \in Listeners |-> "idle"]
    /\ ltmp = [t \in Listeners |-> ZeroConnStats]
    /\ lev = [t \in Listeners |-> NoEvent]
    /\ delivered = <<>>
    /\ user_counter = 0
    /\ user_counter_lock = NoSpawner
    /\ kpc = [t \in Spawners |-> "idle"]
    /\ ktmp = [t \in Spawners |-> 0]
    /\ users = <<>>
    /\ starts = 0
    /\ mqtt_broker = "broker"
    /\ host = <<>>
    /\ broker = "broker"
    /\ conn_stats = [p \in 0..NumWorkers |-> ZeroConnStats]
    /\ stopped = [p \in 0..NumWorkers |-> FALSE]

InitStats ==
    /\ worker_count = 1
    /\ user_pool_size = 1
    /\ instances = {0}
    /\ counter = [w \in Workers |-> 0]
    /\ alock = [w \in Workers |-> NoThread]
    /\ tpc = [w \in Workers |-> [t \in Threads |-> "idle"]]
    /\ tid = [w \in Workers |-> [t \in Threads |-> 0]]
    /\ returned = [w \in Workers |-> <<>>]
    /\ variant \in Variants
    /\ user_kind = "steady"
    /\ client_id = UserIdentity
    /\ upc = "stopped"
    /\ cur = NoSession
    /\ nsess = 0
    /\ ticks = 0
    /\ sess = [s \in Sessions |-> NewSession]
    /\ acked = [s \in Sessions |-> NoAck]
    /\ timed_out = [s \in Sessions |-> FALSE]
    /\ disc_calls = [s \in Sessions |-> 0]
    /\ events = [s \in Sessions |-> <<>>]
    /\ connection_stats = ZeroConnStats
    /\ alert_stats = [p \in 0..NumWorkers |-> ZeroAlertStats]
    /\ msgs = 0
    /\ connect_timeout = 1
    /\ loop_state = "none"
    /\ loops_created = 0
    /\ loop_lock = NoCaller
    /\ loop_cur = NoCaller
    /\ bpc = [c \in Callers |-> "idle"]
    /\ elapsed = [c \in Callers |-> 0]
    /\ waited = [c \in Callers |-> 0]
    /\ work = [c \in Callers |-> "none"]
    /\ outcome = [c \in Callers |-> "none"]
    /\ got = [c \in Callers |-> NoLoop]
    /\ tspc = "idle"
    /\ tsgot = NoLoop
    /\ sent = <<>>
    /\ merged = <<>>
    /\ mlock = NoCallback
    /\ mpc = [t \in CallbackThreads |-> "idle"]
    /\ mtmp = [t \in CallbackThreads |-> 0]
    /\ mpayload = [t \in CallbackThreads |-> <<>>]
    /\ stores = 0
    /\ classified = <<>>
    /\ stats_lock = NoListener
    /\ lpc = [t \in Listeners |-> "idle"]
    /\ ltmp = [t \in Listeners |-> ZeroConnStats]
    /\ lev = [t \in Listeners |-> NoEvent]
    /\ delivered = <<>>
    /\ user_counter = 0
    /\ user_counter_lock = NoSpawner
    /\ kpc = [t \in Spawners |-> "idle"]
    /\ ktmp = [t \in Spawners |-> 0]
    /\ users = <<>>
    /\ starts = 0
    /\ mqtt_broker = "broker"
    /\ host = <<>>
    /\ broker = "broker"
    /\ conn_stats = [p \in 0..NumWorkers |-> ZeroConnStats]
    /\ stopped = [p \in 0..NumWorkers |-> FALSE]

InitCounter ==
    /\ worker_count = 1
    /\ user_pool_size = 1
    /\ instances = {0}
    /\ counter = [w \in Workers |-> 0]
    /\ alock = [w \in Workers |-> NoThread]
    /\ tpc = [w \in Workers |-> [t \in Threads |-> "idle"]]
    /\ tid = [w \in Workers |-> [t \in Threads |-> 0]]
    /\ returned = [w \in Workers |-> <<>>]
    /\ variant = "conntest"
    /\ user_kind = "steady"
    /\ client_id = UserIdentity
    /\ upc = "stopped"
    /\ cur = NoSession
    /\ nsess = 0
    /\ ticks = 0
    /\ sess = [s \in Sessions |-> NewSession]
    /\ acked = [s \in Sessions |-> NoAck]
    /\ timed_out = [s \in Sessions |-> FALSE]
    /\ disc_calls = [s \in Sessions |-> 0]
    /\ events = [s \in Sessions |-> <<>>]
    /\ connection_stats = ZeroConnStats
    /\ alert_stats = [p \in 0..NumWorkers |-> ZeroAlertStats]
    /\ msgs = 0
    /\ connect_timeout = 1
    /\ loop_state = "none"
    /\ loops_created = 0
    /\ loop_lock = NoCaller
    /\ loop_cur = NoCaller
    /\ bpc = [c \in Callers |-> "idle"]
    /\ elapsed = [c \in Callers |-> 0]
    /\ waited = [c \in Callers |-> 0]
    /\ work = [c \in Callers |-> "none"]
    /\ outcome = [c \in Callers |-> "none"]
    /\ got = [c \in Callers |-> NoLoop]
    /\ tspc = "idle"
    /\ tsgot = NoLoop
    /\ sent = <<>>
    /\ merged = <<>>
    /\ mlock = NoCallback
    /\ mpc = [t \in CallbackThreads |-> "idle"]
    /\ mtmp = [t \in CallbackThreads |-> 0]
    /\ mpayload = [t \in CallbackThreads |-> <<>>]
    /\ stores = 0
    /\ classified = <<>>
    /\ stats_lock = NoListener
    /\ lpc = [t \in Listeners |-> "idle"]
    /\ ltmp = [t \in Listeners |-> ZeroConnStats]
    /\ lev = [t \in Listeners |-> NoEvent]
    /\ delivered = <<>>
    /\ user_counter = 0
    /\ user_counter_lock = NoSpawner
    /\ kpc = [t \in Spawners |-> "idle"]
    /\ ktmp = [t \in Spawners |-> 0]
    /\ users = <<>>
    /\ starts = 0
    /\ mqtt_broker = "broker"
    /\ host = <<>>
    /\ broker = "broker"
    /\ conn_stats = [p \in 0..NumWorkers |-> ZeroConnStats]
    /\ stopped = [p \in 0..NumWorkers |-> FALSE]

InitLoop ==
    /\ worker_count = 1
    /\ user_pool_size = 1
    /\ instances = {0}
    /\ counter = [w \in Workers |-> 0]
    /\ alock = [w \in Workers |-> NoThread]
    /\ tpc = [w \in Workers |-> [t \in Threads |-> "idle"]]
    /\ tid = [w \in Workers |-> [t \in Threads |-> 0]]
    /\ returned = [w \in Workers |-> <<>>]
    /\ variant = "gmqtt"
    /\ user_kind = "steady"
    /\ client_id = UserIdentity
    /\ upc = "stopped"
    /\ cur = NoSession
    /\ nsess = 0
    /\ ticks = 0
    /\ sess = [s \in Sessions |-> NewSession]
    /\ acked = [s \in Sessions |-> NoAck]
    /\ timed_out = [s \in Sessions |-> FALSE]
    /\ disc_calls = [s \in Sessions |-> 0]
    /\ events = [s \in Sessions |-> <<>>]
    /\ connection_stats = ZeroConnStats
    /\ alert_stats = [p \in 0..NumWorkers |-> ZeroAlertStats]
    /\ msgs = 0
    /\ connect_timeout = 1
    /\ loop_state = "none"
    /\ loops_created = 0
    /\ loop_lock = NoCaller
    /\ loop_cur = NoCaller
    /\ bpc = [c \in Callers |-> "idle"]
    /\ elapsed = [c \in Callers |-> 0]
    /\ waited = [c \in Callers |-> 0]
    /\ work = [c \in Callers |-> "none"]
    /\ outcome = [c \in Callers |-> "none"]
    /\ got = [c \in Callers |-> NoLoop]
    /\ tspc = "idle"
    /\ tsgot = NoLoop
    /\ sent = <<>>
    /\ merged = <<>>
    /\ mlock = NoCallback
    /\ mpc = [t \in CallbackThreads |-> "idle"]
    /\ mtmp = [t \in CallbackThreads |-> 0]
    /\ mpayload = [t \in CallbackThreads |-> <<>>]
    /\ stores = 0
    /\ classified = <<>>
    /\ stats_lock = NoListener
    /\ lpc = [t \in Listeners |-> "idle"]
    /\ ltmp = [t \in Listeners |-> ZeroConnStats]
    /\ lev = [t \in Listeners |-> NoEvent]
    /\ delivered = <<>>
    /\ user_counter = 0
    /\ user_counter_lock = NoSpawner
    /\ kpc = [t \in Spawners |-> "idle"]
    /\ ktmp = [t \in Spawners |-> 0]
    /\ users = <<>>
    /\ starts = 0
    /\ mqtt_broker = "broker"
    /\ host = <<>>
    /\ broker = "broker"
    /\ conn_stats = [p \in 0..NumWorkers |-> ZeroConnStats]
    /\ stopped = [p \in 0..NumWorkers |-> FALSE]

InitRun ==
    /\ worker_count = 1
    /\ user_pool_size = 1
    /\ instances = {0}
    /\ counter = [w \in Workers |-> 0]
    /\ alock = [w \in Workers |-> NoThread]
    /\ tpc = [w \in Workers |-> [t \in Threads |-> "idle"]]
    /\ tid = [w \in Workers |-> [t \in Threads |-> 0]]
    /\ returned = [w \in Workers |-> <<>>]
    /\ variant = "gmqtt"
    /\ user_kind = "steady"
    /\ client_id = UserIdentity
    /\ upc = "stopped"
    /\ cur = NoSession
    /\ nsess = 0
    /\ ticks = 0
    /\ sess = [s \in Sessions |-> NewSession]
    /\ acked = [s \in Sessions |-> NoAck]
    /\ timed_out = [s \in Sessions |-> FALSE]
    /\ disc_calls = [s \in Sessions |-> 0]
    /\ events = [s \in Sessions |-> <<>>]
    /\ connection_stats = ZeroConnStats
    /\ alert_stats = [p \in 0..NumWorkers |-> ZeroAlertStats]
    /\ msgs = 0
    /\ connect_timeout = 1
    /\ loop_state = "none"
    /\ loops_created = 0
    /\ loop_lock = NoCaller
    /\ loop_cur = NoCaller
    /\ bpc = [c \in Callers |-> "idle"]
    /\ elapsed = [c \in Callers |-> 0]
    /\ waited = [c \in Callers |-> 0]
    /\ work = [c \in Callers |-> "none"]
    /\ outcome = [c \in Callers |-> "none"]
    /\ got = [c \in Callers |-> NoLoop]
    /\ tspc = "idle"
    /\ tsgot = NoLoop
    /\ sent = <<>>
    /\ merged = <<>>
    /\ mlock = NoCallback
    /\ mpc = [t \in CallbackThreads |-> "idle"]
    /\ mtmp = [t \in CallbackThreads |-> 0]
    /\ mpayload = [t \in CallbackThreads |-> <<>>]
    /\ stores = 0
    /\ classified = <<>>
    /\ stats_lock = NoListener
    /\ lpc = [t \in Listeners |-> "idle"]
    /\ ltmp = [t \in Listeners |-> ZeroConnStats]
    /\ lev = [t \in Listeners |-> NoEvent]
    /\ delivered = <<>>
    /\ user_counter = 0
    /\ user_counter_lock = NoSpawner
    /\ kpc = [t \in Spawners |-> "idle"]
    /\ ktmp = [t \in Spawners |-> 0]
    /\ users = <<>>
    /\ starts = 0
    /\ mqtt_broker = "broker"
    /\ host = <<>>
    /\ broker = "broker"
    /\ conn_stats = [p \in 0..NumWorkers |-> ZeroConnStats]
    /\ stopped = [p \in 0..NumWorkers |-> FALSE]

InitStartup ==
    /\ worker_count = 1
    /\ user_pool_size = 1
    /\ instances = {0}
    /\ counter = [w \in Workers |-> 0]
    /\ alock = [w \in Workers |-> NoThread]
    /\ tpc = [w \in Workers |-> [t \in Threads |-> "idle"]]
    /\ tid = [w \in Workers |-> [t \in Threads |-> 0]]
    /\ returned = [w \in Workers |-> <<>>]
    /\ variant \in {"conntest", "gmqtt"}
    /\ user_kind = "steady"
    /\ client_id = UserIdentity
    /\ upc = "uninit"
    /\ cur = NoSession
    /\ nsess = 0
    /\ ticks = 0
    /\ sess = [s \in Sessions |-> NewSession]
    /\ acked = [s \in Sessions |-> NoAck]
    /\ timed_out = [s \in Sessions |-> FALSE]
    /\ disc_calls = [s \in Sessions |-> 0]
    /\ events = [s \in Sessions |-> <<>>]
    /\ connection_stats = ZeroConnStats
    /\ alert_stats = [p \in 0..NumWorkers |-> ZeroAlertStats]
    /\ msgs = 0
    /\ connect_timeout = 1
    /\ loop_state = "none"
    /\ loops_created = 0
    /\ loop_lock = NoCaller
    /\ loop_cur = NoCaller
    /\ bpc = [c \in Callers |-> "idle"]
    /\ elapsed = [c \in Callers |-> 0]
    /\ waited = [c \in Callers |-> 0]
    /\ work = [c \in Callers |-> "none"]
    /\ outcome = [c \in Callers |-> "none"]
    /\ got = [c \in Callers |-> NoLoop]
    /\ tspc = "idle"
    /\ tsgot = NoLoop
    /\ sent = <<>>
    /\ merged = <<>>
    /\ mlock = NoCallback
    /\ mpc = [t \in CallbackThreads |-> "idle"]
    /\ mtmp = [t \in CallbackThreads |-> 0]
    /\ mpayload = [t \in CallbackThreads |-> <<>>]
    /\ stores = 0
    /\ classified = <<>>
    /\ stats_lock = NoListener
    /\ lpc = [t \in Listeners |-> "idle"]
    /\ ltmp = [t \in Listeners |-> ZeroConnStats]
    /\ lev = [t \in Listeners |-> NoEvent]
    /\ delivered = <<>>
    /\ user_counter = 0
    /\ user_counter_lock = NoSpawner
    /\ kpc = [t \in Spawners |-> "idle"]
    /\ ktmp = [t \in Spawners |-> 0]
    /\ users = <<>>
    /\ starts = 0
    /\ mqtt_broker \in {NoBroker, "broker"}
    /\ host \in Hosts
    /\ broker = NoBroker
    /\ conn_stats = [p \in 0..NumWorkers |-> ZeroConnStats]
    /\ stopped = [p \in 0..NumWorkers |-> FALSE]

InitFanSpawn ==
    /\ worker_count = 1
    /\ user_pool_size = 1
    /\ instances = {0}
    /\ counter = [w \in Workers |-> 0]
    /\ alock = [w \in Workers |-> NoThread]
    /\ tpc = [w \in Workers |-> [t \in Threads |-> "idle"]]
    /\ tid = [w \in Workers |-> [t \in Threads |-> 0]]
    /\ returned = [w \in Workers |-> <<>>]
    /\ variant = "fanout"
    /\ user_kind = "steady"
    /\ client_id = UserIdentity
    /\ upc = "stopped"
    /\ cur = NoSession
    /\ nsess = 0
    /\ ticks = 0
    /\ sess = [s \in Sessions |-> NewSession]
    /\ acked = [s \in Sessions |-> NoAck]
    /\ timed_out = [s \in Sessions |-> FALSE]
    /\ disc_calls = [s \in Sessions |-> 0]
    /\ events = [s \in Sessions |-> <<>>]
    /\ connection_stats = ZeroConnStats
    /\ alert_stats = [p \in 0..NumWorkers |-> ZeroAlertStats]
    /\ msgs = 0
    /\ connect_timeout = 1
    /\ loop_state = "none"
    /\ loops_created = 0
    /\ loop_lock = NoCaller
    /\ loop_cur = NoCaller
    /\ bpc = [c \in Callers |-> "idle"]
    /\ elapsed = [c \in Callers |-> 0]
    /\ waited = [c \in Callers |-> 0]
    /\ work = [c \in Callers |-> "none"]
    /\ outcome = [c \in Callers |-> "none"]
    /\ got = [c \in Callers |-> NoLoop]
    /\ tspc = "idle"
    /\ tsgot = NoLoop
    /\ sent = <<>>
    /\ merged = <<>>
    /\ mlock = NoCallback
    /\ mpc = [t \in CallbackThreads |-> "idle"]
    /\ mtmp = [t \in CallbackThreads |-> 0]
    /\ mpayload = [t \in CallbackThreads |-> <<>>]
    /\ stores = 0
    /\ classified = <<>>
    /\ stats_lock = NoListener
    /\ lpc = [t \in Listeners |-> "idle"]
    /\ ltmp = [t \in Listeners |-> ZeroConnStats]
    /\ lev = [t \in Listeners |-> NoEvent]
    /\ delivered = <<>>
    /\ user_counter = 0
    /\ user_counter_lock = NoSpawner
    /\ kpc = [t \in Spawners |-> "idle"]
    /\ ktmp = [t \in Spawners |-> 0]
    /\ users = <<>>
    /\ starts = 0
    /\ mqtt_broker = "broker"
    /\ host = <<>>
    /\ broker = "broker"
    /\ conn_stats = [p \in 0..NumWorkers |-> ZeroConnStats]
    /\ stopped = [p \in 0..NumWorkers |-> FALSE]

SpecAlloc == InitAlloc /\ [][AllocNext]_vars

SpecScenario == InitScenario /\ [][ScenarioNext]_vars

SpecSession == InitSession /\ [][SessionNext]_vars

\* the scheduler keeps running the user's task, the threads and the loop
\* keep running, and the broker answers: no enabled step is postponed
\* forever
SpecRetry == InitRetry /\ [][RetryNext]_vars /\ WF_vars(RetryNext)

SpecMessage == InitMessage /\ [][MessageNext]_vars

SpecBridge == InitBridge /\ [][BridgeNext]_vars

SpecReport == InitReport /\ [][ReportNext]_vars

SpecLoop == InitLoop /\ [][LoopNext]_vars

\* the loop thread and the threads inside get_event_loop are scheduled: the
\* started run_loop reaches run_forever, a thread waiting for a free
\* _loop_lock takes it and a thread polling is_running sees a running loop
SpecLoopLive ==
    /\ InitLoop /\ [][LoopNext]_vars
    /\ WF_vars(BLoopRun)
    /\ \A c \in Callers : WF_vars(BGetLoop(c)) /\ WF_vars(BSpinExit(c))
    /\ \A c \in Callers : WF_vars(BOnConnectGetLoop(c))
    /\ WF_vars(TSGetLoop) /\ WF_vars(TSSpinExit)

SpecRun == InitRun /\ [][RunNext]_vars

SpecStartup == InitStartup /\ [][StartupNext]_vars

SpecStats == InitStats /\ [][StatsNext]_vars

SpecCounter == InitCounter /\ [][CounterNext]_vars

SpecFanSpawn == InitFanSpawn /\ [][FanSpawnNext]_vars

\* the calls of worker w that returned before its first wraparound
FirstWrap(w) ==
    IF \E i \in 1..Len(returned[w]) : returned[w][i].wrapped
    THEN CHOOSE i \in 1..Len(returned[w]) :
            /\ returned[w][i].wrapped
            /\ \A j \in 1..(i - 1) : ~returned[w][j].wrapped
    ELSE Len(returned[w]) + 1

BeforeWrap(w) == 1..(FirstWrap(w) - 1)

\* C1: before their first wraparound, two allocators with distinct worker
\* indices never return a common identity.
C1_DisjointAcrossWorkers ==
    \A w1 \in Workers, w2 \in Workers :
        w1 # w2 =>
            \A i \in BeforeWrap(w1), j \in BeforeWrap(w2) :
                returned[w1][i].id # returned[w2][j].id

C1_Witness ==
    \E w1 \in Workers, w2 \in Workers :
        /\ w1 # w2
        /\ Cardinality(BeforeWrap(w1)) >= 2
        /\ Cardinality(BeforeWrap(w2)) >= 2

C11_ScenarioSequence ==
    /\ \A i \in 1..Len(returned[0]) :
          /\ i <= 50 => (returned[0][i].id = 2 * i - 1 /\ ~returned[0][i].wrapped)
          /\ i = 51 => (returned[0][i].id = 1 /\ returned[0][i].wrapped)
    /\ \A i \in 1..Len(returned[1]) :
          i <= 50 => (returned[1][i].id = 2 * i /\ ~returned[1][i].wrapped)

C11_Witness ==
    /\ Len(returned[0]) >= 51
    /\ Len(returned[1]) >= 50

\* C37: every identity returned by worker w's allocator is congruent to w+1
\* modulo worker_count, also after wraparound, so two workers with distinct
\* indices in 0..worker_count-1 never return a common identity.
C37_ResidueClassPerWorker ==
    /\ \A w \in Workers : \A i \in 1..Len(returned[w]) :
           returned[w][i].id % worker_count = (w + 1) % worker_count
    /\ \A w1, w2 \in Workers : w1 # w2 =>
           \A i \in 1..Len(returned[w1]) : \A j \in 1..Len(returned[w2]) :
               returned[w1][i].id # returned[w2][j].id

C37_Witness ==
    /\ Cardinality(Workers) = 2
    /\ \A w \in Workers :
           /\ Len(returned[w]) >= 3
           /\ \E i \in 1..Len(returned[w]) : returned[w][i].wrapped
           /\ \E i \in 1..Len(returned[w]) : ~returned[w][i].wrapped

\* C31: get_user_count returns the number of users allocated so far: the
\* number of get_next_user_id calls completed on that allocator, after any
\* sequence of calls.
C31_UserCountIsCallCount ==
    \A w \in Workers :
        LockAvailable(w) => get_user_count(w) = Len(returned[w])
\* C12: every identity returned by get_next_user_id lies in
\* [1, user_pool_size], for every worker index below worker_count, every
\* pool size and any number of calls, wraparound included.
C12_IdentityInPool ==
    \A w \in Workers :
        \A i \in 1..Len(returned[w]) :
            /\ returned[w][i].id >= 1
            /\ returned[w][i].id <= user_pool_size

\* C13: a call returns an identity that the worker's allocator returned
\* before only if that call performs the wraparound and logs the warning.
C13_ReuseOnlyOnWrap ==
    \A w \in Workers :
        \A j \in 1..Len(returned[w]) :
            (\E i \in 1..(j - 1) : returned[w][i].id = returned[w][j].id)
                => returned[w][j].wrapped

(***************************************************************************)
(* Session outcome events                                                  *)
(***************************************************************************)
FailedConnects(s) ==
    {i \in 1..Len(events[s]) : events[s][i].name = "connect" /\ ~events[s][i].ok}

\* C3: a connect() attempt acknowledged with rc=5 ("not authorized") fires
\* exactly one failed connect outcome, in the connection-test and in the
\* distributed session.
C3_ExactlyOneFailedEvent ==
    \A s \in Sessions :
        (variant \in {"conntest", "gmqtt"} /\ acked[s] = 5 /\ sess[s].cpc = "done")
            => Cardinality(FailedConnects(s)) = 1

\* C4: every attempt denied with rc 4 or 5 increments auth_failures exactly
\* once, whatever other outcome events the attempt fires.
C4_AuthFailuresOncePerDenial ==
    variant \in {"conntest", "gmqtt"} =>
        connection_stats.auth_failures = Cardinality({s \in Sessions : acked[s] \in {4, 5}})

C4_Witness ==
    /\ variant \in {"conntest", "gmqtt"}
    /\ \E s \in Sessions :
        /\ acked[s] \in {4, 5}
        /\ sess[s].cpc = "done"
        /\ Cardinality(FailedConnects(s)) >= 2
        /\ connection_stats.failed > connection_stats.auth_failures

\* C21: when the acknowledgment of a connect attempt carries a denial code,
\* connect() returns False and the session is not connected when it has
\* returned, in the fan-out, the connection-test and the distributed session.
C21_DeniedReturnsFalse ==
    \A s \in Sessions :
        (acked[s] \notin {NoAck, 0} /\ sess[s].cpc = "done")
            => (sess[s].result = "false" /\ ~sess[s].connected)

C21_Witness ==
    \E s \in Sessions :
        /\ acked[s] \in {4, 5}
        /\ ~timed_out[s]
        /\ sess[s].cpc = "done"
        /\ sess[s].result = "false"
        /\ \E i \in 1..Len(events[s]) : events[s][i].name = "connect" /\ events[s][i].err = "denied"
SuccessfulConnects(s) ==
    {i \in 1..Len(events[s]) : events[s][i].name = "connect" /\ events[s][i].ok}

\* C22: when the acknowledgment of a connect attempt carries rc=0 before
\* connect() has given up waiting, the session has been set connected, exactly
\* one successful connect outcome is fired for the attempt and connect()
\* returns True.
C22_AcceptedReturnsTrue ==
    \A s \in Sessions :
        (acked[s] = 0 /\ ~timed_out[s]) =>
            /\ Cardinality(SuccessfulConnects(s)) = 1
            /\ sess[s].cpc = "done" => sess[s].result = "true"
\* C26: the outcome events of a session are fired in lifecycle order: a
\* subscribe outcome only after the session's successful connect outcome, a
\* message outcome only after its subscribe outcome, and neither by a session
\* that has fired no successful connect outcome.
C26_LifecycleOrder ==
    \A s \in Sessions : \A i \in 1..Len(events[s]) :
        /\ events[s][i].name = "subscribe" =>
               \E j \in 1..(i - 1) : events[s][j].name = "connect" /\ events[s][j].ok
        /\ events[s][i].name = "alert_received" =>
               /\ \E j \in 1..(i - 1) : events[s][j].name = "connect" /\ events[s][j].ok
               /\ \E j \in 1..(i - 1) : events[s][j].name = "subscribe"
SubscribeEvents(s) == {i \in 1..Len(events[s]) : events[s][i].name = "subscribe"}

\* C27: in every session variant a session that has become connected has
\* requested the subscription to its own topic, and one subscribe outcome is
\* fired when the subscription is acknowledged.
C27_ConnectedSubscribes ==
    \A s \in Sessions :
        acked[s] = 0 =>
            /\ SubscriptionRequested(sess[s])
            /\ Cardinality(SubscribeEvents(s)) = (IF sess[s].sub = "acked" THEN 1 ELSE 0)
ConnectEvents(s) == {i \in 1..Len(events[s]) : events[s][i].name = "connect"}

Completed == {s \in Sessions : sess[s].cpc = "done" /\ sess[s].co_pc \in {"none", "done"}}

\* C32: total_attempts equals the number of connect() calls completed by the
\* worker's sessions: every connect() call, whatever its outcome, contributes
\* exactly one connect outcome event.
C32_OneEventPerConnect ==
    variant \in {"conntest", "gmqtt"} =>
        /\ \A s \in Completed : Cardinality(ConnectEvents(s)) = 1
        /\ (\A s \in Sessions : sess[s].cpc = "idle" \/ s \in Completed)
               => connection_stats.total_attempts = Cardinality(Completed)
\* C34: a virtual user's client identifier never changes after construction:
\* every session the user creates, on start and on every reconnect tick,
\* carries the identifier drawn in __init__, and a step of the user draws no
\* identity from the allocator or the user counter.
C34_IdentityFixed ==
    /\ [](\A s \in 1..nsess : sess[s].client_id = client_id)
    /\ [][/\ client_id' = client_id
           /\ counter' = counter
           /\ user_counter' = user_counter]_vars

C34_Witness ==
    /\ variant \in {"conntest", "gmqtt"}
    /\ ticks >= 1 /\ nsess >= 2
    /\ sess[1].client_id = UserIdentity
    /\ sess[2].client_id = UserIdentity
    /\ ~sess[1].connected

\* C36: a session reports is_connected = True only if its most recent
\* acknowledgment was a success code and no disconnect callback or
\* disconnect() call has happened since; connect() returns True only for a
\* session that received a success acknowledgment.
C36_ConnectedMeansAccepted ==
    /\ [](\A s \in Sessions :
            (sess[s].connected \/ sess[s].result = "true") => acked[s] = 0)
    /\ [][\A s \in Sessions :
            /\ (~sess[s].connected /\ sess'[s].connected)
                   => (acked[s] = NoAck /\ acked'[s] = 0)
            /\ (disc_calls'[s] # disc_calls[s]) => ~sess'[s].connected
            /\ OnDisconnect(s) => ~sess'[s].connected]_vars

\* C5: in every session variant a connect() that got no acknowledgment
\* within the timeout returns False and a failed connect outcome classified
\* as a timeout has been fired for it.
C5_TimeoutReported ==
    \A s \in Sessions :
        (timed_out[s] /\ sess[s].cpc = "done") =>
            /\ sess[s].result = "false"
            /\ \E i \in FailedConnects(s) : events[s][i].err = "timeout"

\* C6: every run_async call returns within connect_timeout + 5 time units
\* of being called, whatever the loop thread and the unit of work do.
C6_BridgeBounded ==
    \A c \in Callers : bpc[c] # "idle" => elapsed[c] <= ResultTimeout

\* C7: once disconnect() has returned on a session, whatever state it was
\* in, the session is not connected and its network loop, client and
\* connect coroutine are stopped.
C7_DisconnectReleases ==
    \A s \in Sessions :
        disc_calls[s] > 0 =>
            /\ ~sess[s].connected
            /\ ~sess[s].io_live
            /\ sess[s].co_pc \in {"none", "done"}

DisconnectStep(s) == disc_calls'[s] # disc_calls[s]

DisconnectTwice(x) == DisconnectOp(variant, DisconnectOp(variant, x))

\* C8: disconnect() on a session that is not connected changes no session
\* state, fires no outcome event and touches no counter, and a second
\* disconnect() leaves the state a single disconnect() leaves.
C8_DisconnectIdempotent ==
    [][\A s \in Sessions :
        /\ (DisconnectStep(s) /\ ~sess[s].connected) =>
                /\ sess'[s] = sess[s]
                /\ events' = events
                /\ connection_stats' = connection_stats
                /\ alert_stats' = alert_stats
        /\ DisconnectTwice(sess[s]) = DisconnectOp(variant, sess[s])
        /\ DisconnectTwice(sess'[s]) = DisconnectOp(variant, sess'[s])]_vars

C8_Witness ==
    \E s \in Sessions :
        /\ disc_calls[s] >= 1
        /\ ~sess[s].connected
        /\ sess[s].io_live
        /\ sess[s].result = "false"

(***************************************************************************)
(* Aggregate counters under concurrent listeners                           *)
(***************************************************************************)
Quiescent == \A t \in Listeners : lpc[t] = "idle"

DeliveredIdx == 1..Len(delivered)

IsOk(ev) == ev.ok
IsFailed(ev) == ~ev.ok
IsAuthFailure(ev) == ~ev.ok /\ ev.rc \in {4, 5}
IsValidAlert(ev) == ev.valid
IsInvalidAlert(ev) == ~ev.valid

\* C23: the counters are updated atomically: once the listeners of N outcome
\* events delivered from several threads have all run, total_attempts is N
\* and successful, failed and auth_failures count the events of their class;
\* likewise total_received, valid_alerts and invalid_alerts for N
\* alert_received events.
C23_NoLostUpdate ==
    Quiescent =>
        IF variant = "fanout"
        THEN /\ alert_stats[ThisProc].total_received = Len(delivered)
             /\ alert_stats[ThisProc].valid_alerts = Cardinality({i \in DeliveredIdx : IsValidAlert(delivered[i].ev)})
             /\ alert_stats[ThisProc].invalid_alerts = Cardinality({i \in DeliveredIdx : IsInvalidAlert(delivered[i].ev)})
        ELSE /\ connection_stats.total_attempts = Len(delivered)
             /\ connection_stats.successful = Cardinality({i \in DeliveredIdx : IsOk(delivered[i].ev)})
             /\ connection_stats.failed = Cardinality({i \in DeliveredIdx : IsFailed(delivered[i].ev)})
             /\ connection_stats.auth_failures = Cardinality({i \in DeliveredIdx : IsAuthFailure(delivered[i].ev)})

C23_Witness ==
    /\ Quiescent
    /\ variant # "fanout"
    /\ Len(delivered) >= 3
    /\ \E i, j \in 1..Len(delivered) : delivered[i].by # delivered[j].by
    /\ connection_stats.total_attempts = Len(delivered)
    /\ connection_stats.auth_failures >= 1
    /\ connection_stats.successful >= 1

\* C33: in every state of a worker total_attempts = successful + failed and
\* auth_failures <= failed, for any sequence and interleaving of connect
\* outcome events.
C33_CountersConsistent ==
    variant # "fanout" =>
        /\ connection_stats.total_attempts
               = connection_stats.successful + connection_stats.failed
        /\ connection_stats.auth_failures <= connection_stats.failed

\* C33, amended: the two relations hold in every state in which no listener
\* holds stats_lock; inside the critical section total_attempts is raised
\* before the counter of the event's class.
C33_ConsistentOutsideLock ==
    StatsLockAvailable => C33_CountersConsistent

C33_Witness ==
    /\ variant # "fanout"
    /\ StatsLockAvailable
    /\ connection_stats.failed >= 2
    /\ connection_stats.auth_failures = 1
    /\ connection_stats.successful = 1
    /\ \E i, j \in DeliveredIdx : delivered[i].by # delivered[j].by

(***************************************************************************)
(* The background event loop                                               *)
(***************************************************************************)
HasLoop(c) == got[c] # NoLoop

\* C24: one background event loop per process: however the calls of
\* get_event_loop / run_async interleave, the very first ones included, at
\* most one loop and loop thread are created and every caller receives that
\* loop.
C24_SingleLoop ==
    /\ loops_created <= 1
    /\ \A c, d \in Callers : (HasLoop(c) /\ HasLoop(d)) => got[c] = got[d]
    /\ \A c \in Callers : HasLoop(c) => (got[c] = loops_created /\ loop_state = "running")
    /\ tsgot # NoLoop => (tsgot = loops_created /\ loop_state = "running")

C24_Witness ==
    /\ loops_created = 1
    /\ \E c, d \in Callers :
        /\ c # d
        /\ bpc[c] = "spin" /\ loop_lock = c
        /\ bpc[d] = "lock_wait"

Running == {c \in Callers : work[c] \in OnLoopThread}

\* C25: the coroutines submitted through run_async by any number of threads
\* execute only on the thread of the single loop, and never two of them at
\* the same instant.
C25_UnitsSerialized ==
    /\ Cardinality(Running) <= 1
    /\ \A c \in Running :
        /\ loop_cur = c
        /\ loop_state = "running"
        /\ got[c] = loops_created /\ loops_created = 1

C25_Witness ==
    \E c, d \in Callers :
        /\ c # d
        /\ work[c] = "running"
        /\ work[d] = "suspended"
        /\ \E e \in Callers : work[e] = "finished" \/ work[e] = "queued" \/ e = d

\* C38: get_event_loop returns a loop that is running when it returns, and
\* every call of it returns under fair scheduling: a thread entering it
\* from run_async or on_test_start, the first ones that create the loop and
\* wait for it to start included, and a session callback calling it on the
\* loop thread; nobody waits for ever on _loop_lock.
C38_GetLoopReturnsRunning ==
    /\ [][\A c \in Callers :
             (bpc[c] \in {"lock_wait", "spin"} /\ bpc'[c] = "result_wait")
                 => (loop_state' = "running" /\ got'[c] = loops_created')]_vars
    /\ [][(tspc # "done" /\ tspc' = "done")
              => (loop_state' = "running" /\ tsgot' = loops_created')]_vars
    /\ \A c \in Callers : (bpc[c] = "lock_wait") ~> (bpc[c] = "result_wait")
    /\ (tspc = "lock_wait") ~> (tspc = "done")
    /\ \A c \in Callers : (work[c] = "cb_lock_wait") ~> (work[c] = "signalled")

C38_Witness ==
    /\ loop_state = "running"
    /\ tspc = "done" /\ tsgot = loops_created
    /\ \E c, d \in Callers :
        /\ c # d
        /\ work[c] = "signalled" /\ loop_cur = c
        /\ bpc[d] = "result_wait" /\ got[d] = loops_created

(***************************************************************************)
(* Scheduling ticks of a steady virtual user                               *)
(***************************************************************************)
\* the step is one run of the user's task (wait_for_alert /
\* maintain_connection)
TickStep == user_kind = "steady" /\ ticks' = ticks + 1

\* the session has live I/O: a running network loop or client, an
\* in-flight connect coroutine, or an open connection
LiveIO(s) ==
    \/ sess[s].io_live
    \/ sess[s].connected
    \/ sess[s].co_pc \in {"scheduled", "connecting", "await_connack"}

\* C16: a tick issues at most one connect attempt, and issues one exactly
\* when the user's session is absent or not connected; the attempt uses a
\* fresh session with the same client identifier, and the previous session
\* has been torn down by then.
C16_TickReconnectsOnce ==
    [][TickStep =>
        /\ nsess' \in {nsess, nsess + 1}
        /\ (nsess' = nsess + 1 /\ upc' = "call_connect")
              <=> (cur = NoSession \/ ~sess[cur].connected)
        /\ nsess' = nsess + 1 =>
              /\ cur' = nsess + 1
              /\ sess'[cur'].client_id = client_id
              /\ sess'[cur'].cpc = "idle"
              /\ ~sess'[cur'].connected
              /\ cur # NoSession =>
                    /\ ~sess'[cur].connected
                    /\ ~sess'[cur].io_live
                    /\ sess'[cur].co_pc \in {"none", "done"}]_vars

\* C17: at every moment at most one session created for the user has live
\* I/O, also after connect timeouts, bridge timeouts and reconnect ticks.
C17_OneLiveSession ==
    Cardinality({s \in Sessions : LiveIO(s)}) <= 1

\* C18: a tick of a user whose session is connected creates no session,
\* issues no connect or disconnect, fires no outcome event and leaves the
\* session state, the identity and the aggregate counters unchanged.
C18_ConnectedTickNoOp ==
    [][(TickStep /\ cur # NoSession /\ sess[cur].connected) =>
        /\ sess' = sess
        /\ nsess' = nsess
        /\ cur' = cur
        /\ upc' = upc
        /\ disc_calls' = disc_calls
        /\ events' = events
        /\ client_id' = client_id
        /\ connection_stats' = connection_stats
        /\ alert_stats' = alert_stats]_vars

C18_Witness ==
    /\ user_kind = "steady"
    /\ ticks >= 1
    /\ nsess = 1
    /\ cur = 1
    /\ sess[cur].connected
    /\ upc = "ready"

Started == upc # "new"

UserConnected == cur # NoSession /\ sess[cur].connected

\* C19: a user whose attempts fail or time out issues a new attempt on its
\* next tick, so once the broker acknowledges attempts with success the
\* started user is eventually connected.
C19_EventuallyConnected == Started ~> UserConnected

C19_Witness ==
    /\ nsess >= 2
    /\ sess[1].result = "false"
    /\ ~sess[1].connected
    /\ cur = nsess
    /\ sess[cur].result = "true"
    /\ UserConnected

\* C20: whatever fails at the session boundary (transport failure,
\* denial, timeout, the underlying client raising while its loop is stopped
\* or it disconnects), no exception leaves connect() or disconnect().
C20_NoExceptionEscapes ==
    \A s \in Sessions : ~sess[s].escaped

(***************************************************************************)
(* Received messages                                                       *)
(***************************************************************************)
IsAlertEvent(ev) == ev.name = "alert_received"

AlertEvents(s) == SelectSeq(events[s], IsAlertEvent)

\* C14: a payload that equals b"ALERT" byte for byte is classified valid
\* and every other payload invalid, and each callback that has passed its
\* locked increment has raised messages_received by exactly one, whatever
\* the interleaving of the callback threads.
C14_ClassifiedAndCounted ==
    /\ Len(AlertEvents(cur)) = Len(classified)
    /\ \A i \in 1..Len(classified) :
          /\ classified[i].valid <=> (classified[i].payload = ALERT)
          /\ AlertEvents(cur)[i].valid = classified[i].valid
    /\ sess[cur].messages_received = stores
    /\ stores = Len(classified) + Cardinality({t \in CallbackThreads : mpc[t] = "classify"})

C14_Witness ==
    /\ \E i \in 1..Len(classified) : classified[i].valid
    /\ \E t1 \in CallbackThreads, t2 \in CallbackThreads :
          /\ mpc[t1] = "classify"
          /\ mpayload[t1] \notin {ALERT, <<>>}
          /\ mpc[t2] = "locked"
    /\ sess[cur].messages_received = 2

ValidEvents(s) == {i \in 1..Len(AlertEvents(s)) : AlertEvents(s)[i].valid}

InvalidEvents(s) == {i \in 1..Len(AlertEvents(s)) : ~AlertEvents(s)[i].valid}

RECURSIVE SumLocal(_, _)
SumLocal(P, k) ==
    IF P = {} THEN 0
    ELSE LET p == CHOOSE q \in P : TRUE
         IN alert_stats[p][k] + SumLocal(P \ {p}, k)

RECURSIVE SumSent(_, _)
SumSent(I, k) ==
    IF I = {} THEN 0
    ELSE LET i == CHOOSE m \in I : \A n \in I : m <= n
         IN DictGet(sent[i].data.alert_stats, k) + SumSent(I \ {i}, k)

LastReport(p) == CHOOSE i \in ReportsOf(p) : \A j \in ReportsOf(p) : j <= i

AllReported ==
    /\ Unmerged = {}
    /\ \A p \in WorkerProcs :
        /\ ReportsOf(p) # {}
        /\ sent[LastReport(p)].data.alert_stats = alert_stats[p]

\* C9: once every worker report has been merged, each coordinator counter
\* equals the sum of the workers' local counters, however many reports each
\* worker sent.
C9_ContributedExactlyOnce ==
    AllReported =>
        \A k \in StatKeys : alert_stats[Coordinator][k] = SumLocal(WorkerProcs, k)

MergedSet == {merged[j] : j \in 1..Len(merged)}

\* C10: the coordinator totals are the field-wise sum of the merged
\* snapshots, in whatever order the reports were merged.
C10_MergeOrderIndependent ==
    \A k \in StatKeys : alert_stats[Coordinator][k] = SumSent(MergedSet, k)

C10_Witness ==
    /\ Len(merged) >= 2
    /\ merged[1] > merged[2]
    /\ sent[merged[1]].from # sent[merged[2]].from
    /\ sent[merged[1]].data # sent[merged[2]].data
    /\ alert_stats[Coordinator].total_received > 0

(***************************************************************************)
(* Connection counters at the end of a distributed run                     *)
(***************************************************************************)
\* C28: at test end the connection counters of the workers are merged at
\* the coordinator: each of its counters equals the sum of the workers'.
C28_MergedAtCoordinator ==
    (\A p \in Procs : stopped[p]) =>
        \A k \in ConnKeys : conn_stats[Coordinator][k] = SumConn(WorkerProcs, k)

(***************************************************************************)
(* Client identifiers of the connection test                               *)
(***************************************************************************)
\* C29: whatever the interleaving of MQTTConnectionUser constructions and
\* test_start events in one process, no two users that exist at the same
\* time hold the same client_id.
C29_UniqueClientIds ==
    \A i, j \in 1..Len(users) : i # j => users[i] # users[j]

\* C35: no two virtual users alive at the same time in one worker process
\* hold the same client identifier, for any number of users spawned.
C35_AliveUsersDistinct ==
    \A i, j \in 1..Len(users) : (i < j) => users[i] # users[j]

(***************************************************************************)
(* Missing broker address                                                  *)
(***************************************************************************)
\* C30: when neither MQTT_BROKER nor --host gives a broker address, the
\* virtual user constructs no session, issues no connect attempt and no
\* outcome event is fired.
C30_NoBrokerIsFatal ==
    (upc # "uninit" /\ mqtt_broker = NoBroker /\ host = <<>>) =>
        /\ nsess = 0
        /\ \A s \in Sessions : events[s] = <<>>
        /\ connection_stats = ZeroConnStats

====
